---- MODULE Spec2Model ----
(***************************************************************************)
(* AsteroidStrike: the impact physics engine (src/lib/impactTypes.ts,      *)
(* computeImpactEffectsServer and its helpers) and the POST handlers that  *)
(* call it (src/app/api/impact-engine/route.ts, compute-impact route);     *)
(* report requests, registration and key rotation as concurrent handlers   *)
(* over Redis and R2 (SpecReports, SpecAccounts); and the asteroid-defense *)
(* page with its timers and buttons (SpecGame).                            *)
(*                                                                         *)
(* JavaScript numbers are modelled by records [k, s, l]:                   *)
(*   k = "nan" | "zero" | "fin" | "inf" | "null" | "undef"                 *)
(*   s = sign (1 or -1), l = log10 of the magnitude in micro-decades       *)
(* so that products, quotients and powers are exact up to one micro-decade *)
(* (a relative error of 2.3e-6) over the whole range of a double, and      *)
(* NaN, zero and the infinities behave as IEEE-754 prescribes.  Radii in   *)
(* the bisection are kept linearly, as (metres, micrometres) pairs.        *)
(***************************************************************************)
EXTENDS Integers, Sequences, FiniteSets, TLC

----------------------------------------------------------------------------
(* Integer helpers of the number representation. *)

S8 == 10000 * 10000
MICRO == 1000 * 1000

Pow10Int(k) ==
  CASE k = 0 -> 1 [] k = 1 -> 10 [] k = 2 -> 100 [] k = 3 -> 1000
    [] k = 4 -> 10000 [] k = 5 -> 100000 [] k = 6 -> 1000000
    [] k = 7 -> 10000000 [] k = 8 -> 100000000 [] OTHER -> 1000000000

Digits(n) ==
  IF n < 10 THEN 1 ELSE IF n < 100 THEN 2 ELSE IF n < 1000 THEN 3
  ELSE IF n < 10000 THEN 4 ELSE IF n < 100000 THEN 5
  ELSE IF n < 1000000 THEN 6 ELSE IF n < 10000000 THEN 7
  ELSE IF n < 100000000 THEN 8 ELSE IF n < 1000000000 THEN 9 ELSE 10


IMax(a, b) == IF a >= b THEN a ELSE b
IMin(a, b) == IF a <= b THEN a ELSE b
IAbs(a) == IF a < 0 THEN -a ELSE a

\* floor(a * b / 1e8) for 0 <= a, b, without leaving 32 bits
Mul8(a, b) ==
  (a \div 10000) * (b \div 10000)
  + (((a \div 10000) * (b % 10000) + (a % 10000) * (b \div 10000))
     + ((a % 10000) * (b % 10000)) \div 10000) \div 10000

\* floor(l * p / q) for q > 0, p >= 0, without leaving 32 bits
MulDiv(l, p, q) == (l \div q) * p + ((l % q) * p) \div q

\* 10^(d/10) and 10^(d/100), and their reciprocals, scaled by 1e8
T1 == <<100000000, 125892541, 158489319, 199526231, 251188643,
        316227766, 398107171, 501187234, 630957344, 794328235>>
T2 == <<100000000, 102329299, 104712855, 107151931, 109647820,
        112201845, 114815362, 117489755, 120226443, 123026877>>
R1 == <<100000000, 79432823, 63095734, 50118723, 39810717,
        31622777, 25118864, 19952623, 15848932, 12589254>>
R2 == <<100000000, 97723722, 95499259, 93325430, 91201084,
        89125094, 87096359, 85113804, 83176377, 81283052>>

\* e^(t/1e8) scaled by 1e8, for 0 <= t < 2.4e6
ExpSeries(t) == S8 + t + Mul8(t, t) \div 2 + Mul8(Mul8(t, t), t) \div 6

\* 10^(f/1e6) scaled by 1e8, for 0 <= f < 1e6: a mantissa in [1e8, 1e9)
Exp10m(f) ==
  Mul8(Mul8(T1[f \div 100000 + 1], T2[((f \div 10000) % 10) + 1]),
       ExpSeries(((f % 10000) * 115129) \div 500))

\* the largest d in 0..9 with tab[d + 1] <= m
TableFloor(tab, m) ==
  IF tab[10] <= m THEN 9 ELSE IF tab[9] <= m THEN 8 ELSE IF tab[8] <= m THEN 7
  ELSE IF tab[7] <= m THEN 6 ELSE IF tab[6] <= m THEN 5 ELSE IF tab[5] <= m THEN 4
  ELSE IF tab[4] <= m THEN 3 ELSE IF tab[3] <= m THEN 2 ELSE IF tab[2] <= m THEN 1
  ELSE 0

\* ln(1 + y/1e8) scaled by 1e8, for 0 <= y < 2.4e6
LnSeries(y) == y - Mul8(y, y) \div 2 + Mul8(Mul8(y, y), y) \div 3

Log10mDigit2(d1, d2, m1) ==
  d1 * 100000 + d2 * 10000
  + ((LnSeries(IMax(0, Mul8(m1, R2[d2 + 1]) - S8)) \div 10) * 4343) \div 100000

Log10mDigit1(d1, m1) == Log10mDigit2(d1, TableFloor(T2, m1), m1)

\* log10(m / 1e8) in micro-decades for a mantissa m in [1e8, 1e9)
Log10m(m) == Log10mDigit1(TableFloor(T1, m), Mul8(m, R1[TableFloor(T1, m) + 1]))

IntLogDigits(n, d) ==
  (d - 1) * MICRO + Log10m(IF d = 10 THEN n \div 10 ELSE n * Pow10Int(9 - d))

\* log10(n) in micro-decades for an integer n >= 1
IntLog(n) == IntLogDigits(n, Digits(n))

\* 10^(l/1e6) rounded down to an integer, for l < 9e6
IntExp(l) ==
  IF l < 0 THEN 0
  ELSE Exp10m(l % MICRO) \div Pow10Int(8 - l \div MICRO)

----------------------------------------------------------------------------
(* JavaScript numbers.  The operands of the arithmetic below are numbers:   *)
(* null and undefined are rejected by the routes, or replaced by `??`,      *)
(* before any arithmetic.                                                   *)

NaN == [k |-> "nan", s |-> 1, l |-> 0]
Zero == [k |-> "zero", s |-> 1, l |-> 0]
One == [k |-> "fin", s |-> 1, l |-> 0]
Null == [k |-> "null", s |-> 1, l |-> 0]
Undefined == [k |-> "undef", s |-> 1, l |-> 0]
Infinity(sg) == [k |-> "inf", s |-> sg, l |-> 0]

\* the range of a double: 1.8e308 overflows, 4.9e-324 is the last subnormal
MaxL == 308 * MICRO + 254716
MinL == -(323 * MICRO + 306215)

\* a finite non-zero number of sign sg and magnitude 10^(l/1e6)
Fin(sg, l) ==
  IF l > MaxL THEN Infinity(sg)
  ELSE IF l < MinL THEN Zero
  ELSE [k |-> "fin", s |-> sg, l |-> l]

\* the literal m * 10^e (m an integer)
Dec(m, e) ==
  IF m = 0 THEN Zero
  ELSE Fin(IF m < 0 THEN -1 ELSE 1, IntLog(IAbs(m)) + e * MICRO)

IsNaN(a) == a.k = "nan"
IsNullish(a) == a.k \in {"null", "undef"}
\* Number.isFinite / isFinite on a number
isFinite(a) == a.k \in {"zero", "fin"}

Sgn(a) == IF a.k = "zero" THEN 0 ELSE a.s
\* the magnitude's place in the order of magnitudes (infinity above all)
Mag(a) == IF a.k = "inf" THEN MaxL + 1 ELSE IF a.k = "zero" THEN MinL - 1 ELSE a.l

\* -1, 0, 1 as a < b, a = b, a > b, for numbers that are not NaN
Cmp(a, b) ==
  IF Sgn(a) # Sgn(b) THEN (IF Sgn(a) < Sgn(b) THEN -1 ELSE 1)
  ELSE IF Sgn(a) = 0 THEN 0
  ELSE IF Mag(a) = Mag(b) THEN 0
  ELSE IF Mag(a) < Mag(b) THEN -Sgn(a) ELSE Sgn(a)

\* the relational operators: every comparison with NaN is false
Lt(a, b) == ~IsNaN(a) /\ ~IsNaN(b) /\ Cmp(a, b) < 0
Le(a, b) == ~IsNaN(a) /\ ~IsNaN(b) /\ Cmp(a, b) <= 0
Gt(a, b) == Lt(b, a)
Ge(a, b) == Le(b, a)

Neg(a) == IF a.k \in {"nan", "zero"} THEN a ELSE [a EXCEPT !.s = -a.s]

\* a * b
Mul(a, b) ==
  IF IsNaN(a) \/ IsNaN(b) THEN NaN
  ELSE IF a.k = "zero" \/ b.k = "zero"
       THEN (IF a.k = "inf" \/ b.k = "inf" THEN NaN ELSE Zero)
  ELSE IF a.k = "inf" \/ b.k = "inf" THEN Infinity(a.s * b.s)
  ELSE Fin(a.s * b.s, a.l + b.l)

\* a / b
Div(a, b) ==
  IF IsNaN(a) \/ IsNaN(b) THEN NaN
  ELSE IF b.k = "zero" THEN (IF a.k = "zero" THEN NaN ELSE Infinity(a.s))
  ELSE IF b.k = "inf" THEN (IF a.k = "inf" THEN NaN ELSE Zero)
  ELSE IF a.k = "zero" THEN Zero
  ELSE IF a.k = "inf" THEN Infinity(a.s * b.s)
  ELSE Fin(a.s * b.s, a.l - b.l)

\* 10^(d/1e6) scaled by 1e8, for d <= 0 and q = ceil(-d/1e6)
Frac8Q(d, q) == IF q > 9 THEN 0 ELSE Exp10m(d + q * MICRO) \div Pow10Int(q)
Frac8(d) == Frac8Q(d, (-d + MICRO - 1) \div MICRO)

\* the number of sign sg and magnitude 10^(hi/1e6) * y / 1e8, for y < 1e9
AddNorm(sg, hi, y) ==
  IF y <= 0 THEN Zero
  ELSE Fin(sg, hi + Log10m(y * Pow10Int(9 - Digits(y))) - (9 - Digits(y)) * MICRO)

\* a + b for finite non-zero a and b with |a| >= |b|
AddFin(a, b) == AddNorm(a.s, a.l, S8 + (a.s * b.s) * Frac8(b.l - a.l))

\* a + b
Add(a, b) ==
  IF IsNaN(a) \/ IsNaN(b) THEN NaN
  ELSE IF a.k = "inf" THEN (IF b.k = "inf" /\ b.s # a.s THEN NaN ELSE a)
  ELSE IF b.k = "inf" THEN b
  ELSE IF a.k = "zero" THEN b
  ELSE IF b.k = "zero" THEN a
  ELSE AddFin(IF a.l >= b.l THEN a ELSE b, IF a.l >= b.l THEN b ELSE a)

\* a - b
Sub(a, b) == Add(a, Neg(b))

\* the sign of Math.pow(a, p/q): odd integer powers keep the sign
PowSign(a, p, q) == IF q = 1 /\ p % 2 = 1 THEN a.s ELSE 1

\* Math.pow(a, p/q) for integers p # 0 and q > 0 (q = 1: an integer exponent)
Math_pow(a, p, q) ==
  IF IsNaN(a) THEN NaN
  ELSE IF a.k = "zero" THEN (IF p > 0 THEN Zero ELSE Infinity(1))
  ELSE IF a.k = "inf" THEN (IF p > 0 THEN Infinity(PowSign(a, p, q)) ELSE Zero)
  ELSE IF a.s < 0 /\ q # 1 THEN NaN
  ELSE IF p > 0 THEN Fin(PowSign(a, p, q), MulDiv(a.l, p, q))
  ELSE Fin(PowSign(a, p, q), -MulDiv(a.l, -p, q))

\* Math.sqrt(a)
Math_sqrt(a) ==
  IF a.k \in {"fin", "inf"} /\ a.s < 0 THEN NaN ELSE Math_pow(a, 1, 2)

\* Math.pow(10, a)
Pow10(a) ==
  IF IsNaN(a) THEN NaN
  ELSE IF a.k = "zero" THEN One
  ELSE IF a.k = "inf" THEN (IF a.s > 0 THEN Infinity(1) ELSE Zero)
  ELSE IF a.l > 2600000 THEN (IF a.s > 0 THEN Infinity(1) ELSE Zero)
  ELSE Fin(1, a.s * IntExp(a.l + 6 * MICRO))

LOG10E == Dec(434294482, -9)
LN10 == Dec(230258509, -8)

\* Math.exp(a)
Math_exp(a) == Pow10(Mul(a, LOG10E))

\* Math.log10(a)
Math_log10(a) ==
  IF IsNaN(a) THEN NaN
  ELSE IF a.k = "zero" THEN Infinity(-1)
  ELSE IF a.s < 0 THEN NaN
  ELSE IF a.k = "inf" THEN Infinity(1)
  ELSE Dec(a.l, -6)

\* Math.log(a)
Math_log(a) == Mul(Math_log10(a), LN10)

\* Math.min(a, b) and Math.max(a, b): NaN if either is NaN
Math_min(a, b) ==
  IF IsNaN(a) \/ IsNaN(b) THEN NaN ELSE IF Cmp(a, b) <= 0 THEN a ELSE b
Math_max(a, b) ==
  IF IsNaN(a) \/ IsNaN(b) THEN NaN ELSE IF Cmp(a, b) >= 0 THEN a ELSE b

\* x ?? d
Nullish(x, d) == IF IsNullish(x) THEN d ELSE x

----------------------------------------------------------------------------
(* Radii of the bisection: metres and micrometres, or NaN. *)

RNaN == [k |-> "nan", M |-> 0, u |-> 0]
Rad(M, u) == [k |-> "fin", M |-> M, u |-> u]

\* the mantissa m (scaled by 1e8) times 10^e, as a radius
RSplit(e, m) ==
  IF e >= 2
  THEN Rad(m \div Pow10Int(8 - e), (m % Pow10Int(8 - e)) * Pow10Int(e - 2))
  ELSE IF e < -7 THEN Rad(0, 0)
  ELSE Rad((m \div Pow10Int(IMin(9, 2 - e))) \div MICRO,
           (m \div Pow10Int(IMin(9, 2 - e))) % MICRO)

\* a number >= 0 (below 1e8 m) as a radius
RFromNum(x) ==
  IF x.k = "zero" THEN Rad(0, 0)
  ELSE IF x.k # "fin" THEN RNaN
  ELSE RSplit(x.l \div MICRO, Exp10m(x.l % MICRO))

\* the integer v in 1..999999999 times 10^(e/1e6), as a number
RScaled(v, e) ==
  Fin(1, e + (Digits(v) - 1) * MICRO + Log10m(v * Pow10Int(9 - Digits(v))))

\* a radius as a number
RToNum(r) ==
  IF r.k = "nan" THEN NaN
  ELSE IF r.M = 0 /\ r.u = 0 THEN Zero
  ELSE RScaled(IF r.M < 1000 THEN r.M * MICRO + r.u
               ELSE r.M * Pow10Int(9 - Digits(r.M)) + r.u \div Pow10Int(Digits(r.M) - 3),
               IF r.M < 1000 THEN -6 * MICRO ELSE (Digits(r.M) - 9) * MICRO)

\* the radius of M metres and u micrometres, u < 2e6
RCarry(M, u) == Rad(M + u \div MICRO, u % MICRO)

\* 0.5 * (lo + hi)
RMid(lo, hi) ==
  IF lo.k = "nan" \/ hi.k = "nan" THEN RNaN
  ELSE RCarry((lo.M + hi.M) \div 2,
              (((lo.M + hi.M) % 2) * MICRO + lo.u + hi.u) \div 2)

\* hi - lo, for lo <= hi
RSub(hi, lo) ==
  IF lo.k = "nan" \/ hi.k = "nan" THEN RNaN
  ELSE IF hi.u >= lo.u THEN Rad(hi.M - lo.M, hi.u - lo.u)
  ELSE Rad(hi.M - lo.M - 1, hi.u + MICRO - lo.u)

RLe(a, b) == a.k = "fin" /\ b.k = "fin" /\ (a.M < b.M \/ (a.M = b.M /\ a.u <= b.u))

----------------------------------------------------------------------------
(* Constants of src/lib/impactTypes.ts. *)

MT_TO_J == Dec(4184, 12)
G == Dec(981, -2)
VE_KM3 == Dec(1083, 9)
EARTH_R_M == Dec(6371, 3)
HALF_CIRCUMFERENCE_M == Dec(2003750834, -2)
EARTH_DIAMETER == Dec(12756, 3)

DEFAULTS_INIT ==
  [K |-> Dec(3, -3), Cd |-> Dec(2, 0), rho0 |-> Dec(1, 0), H |-> Dec(8000, 0),
   fp |-> Dec(7, 0), rho_air_for_wind |-> Dec(12, -1),
   burn_horizon_m |-> Dec(1500000, 0), water_depth_m |-> Dec(3682, 0),
   density_water |-> Dec(1000, 0), water_drag_coeff |-> Dec(877, -3)]

PI == Dec(314159265, -8)

\* theta_deg * Math.PI / 180
ThetaRad(theta_deg) == Div(Mul(theta_deg, PI), Dec(180, 0))

\* Math.sin, tabulated at the entry angles the model draws
Math_sin(theta_rad) ==
  CASE theta_rad = ThetaRad(Dec(1, 0)) -> Dec(17452406, -9)
    [] theta_rad = ThetaRad(Dec(45, 0)) -> Dec(70710678, -8)
    [] theta_rad = ThetaRad(Dec(90, 0)) -> One
    [] theta_rad = ThetaRad(Dec(135, 0)) -> Dec(70710678, -8)
    [] theta_rad = ThetaRad(Dec(-45, 0)) -> Dec(-70710678, -8)
    [] theta_rad = Zero -> Zero
    [] OTHER -> NaN

----------------------------------------------------------------------------
(* The physics helpers, as the code computes them. *)

energyResult(m, E_J) == [m |-> m, E_J |-> E_J, E_Mt |-> Div(E_J, MT_TO_J)]

\* a variant that forgets the factor 0.5 of the kinetic energy
energyFromDiameterNoHalf(m, v0) ==
  energyResult(m, Mul(Mul(m, v0), v0))

energyFromDiameter(m, v0) ==
  energyResult(m, Mul(Mul(Mul(Dec(5, -1), m), v0), v0))

intactSurfaceVelocity(v0, L0, rho_i, theta_rad, Cd, rho0, H) ==
  Mul(v0,
      Math_exp(Neg(Div(Mul(Mul(Mul(Dec(3, 0), Cd), rho0), H),
                       Mul(Mul(Mul(Dec(4, 0), rho_i), L0), Math_sin(theta_rad))))))

atmosphericDensity(z, rho0, H) == Mul(rho0, Math_exp(Div(Neg(z), H)))

\* line 335: the yield strength Yi
breakupYi(rho_i) ==
  Pow10(Add(Dec(2107, -3), Mul(Dec(624, -4), Math_sqrt(rho_i))))

\* line 336: If
breakupIf(Lo, rho_i, vo, theta_rad, CD, H, Yi) ==
  Div(Mul(Mul(CD, H), Yi),
      Mul(Mul(Mul(rho_i, Lo), Math_pow(vo, 2, 1)), Math_sin(theta_rad)))

\* lines 340-346: z_star when the body breaks up
breakupZstar(vo, H, rho_0, Yi, If) ==
  Mul(Neg(H),
      Sub(Sub(Add(Math_log(Div(Yi, Mul(rho_0, Math_pow(vo, 2, 1)))), Dec(1308, -3)),
              Mul(Dec(314, -3), If)),
          Mul(Dec(1303, -3), Math_sqrt(Sub(One, If)))))

breakupResult(vo, H, rho_0, Yi, If) ==
  [If |-> If,
   z_star |-> IF Lt(If, One) THEN breakupZstar(vo, H, rho_0, Yi, If) ELSE Zero,
   breakup |-> Lt(If, One)]

breakupWithYi(Lo, rho_i, vo, theta_rad, CD, H, rho_0, Yi) ==
  breakupResult(vo, H, rho_0, Yi, breakupIf(Lo, rho_i, vo, theta_rad, CD, H, Yi))

breakupIfAndZstar(Lo, rho_i, vo, theta_rad, CD, H, rho_0) ==
  breakupWithYi(Lo, rho_i, vo, theta_rad, CD, H, rho_0, breakupYi(rho_i))

\* lines 361-362: the dispersion length l
pancakeL(Lo, rho_i, theta_rad, CD, rho_z_star) ==
  Mul(Mul(Lo, Math_sin(theta_rad)), Math_sqrt(Div(rho_i, Mul(CD, rho_z_star))))

\* lines 363-364: zb
pancakeZb(z_star, H, fp, l) ==
  Sub(z_star,
      Mul(Mul(Dec(2, 0), H),
          Math_log(Add(One,
                       Mul(Div(l, Mul(Dec(2, 0), H)),
                           Math_sqrt(Sub(Math_pow(fp, 2, 1), One)))))))

\* lines 365-366
pancakeClamp(zb) == IF Lt(zb, Zero) THEN Zero ELSE zb

\* D is DEFAULTS: atmosphericDensity(z_star) is called with its default
\* arguments
pancakeAirburstAltitude(Lo, rho_i, theta_rad, z_star, H, fp, CD, D) ==
  pancakeClamp(
    pancakeZb(z_star, H, fp,
              pancakeL(Lo, rho_i, theta_rad, CD,
                       atmosphericDensity(z_star, D.rho0, D.H))))

fireballRadius(E_J) ==
  Math_min(EARTH_R_M, Mul(Dec(2, -3), Math_pow(E_J, 1, 3)))

\* one pass of burnRadii's loop, for the 1 Mt threshold thr_MJ
burnRadius(thr_MJ, E_Mt, E_J, K, D) ==
  Math_min(
    Math_sqrt(Div(Mul(K, E_J),
                  Mul(Mul(Dec(2, 0), PI),
                      Mul(Mul(thr_MJ, Dec(1, 6)),
                          Math_pow(Math_max(E_Mt, Dec(1, -12)), 1, 6))))),
    D.burn_horizon_m)

burnRadii(E_Mt, E_J, K, D) ==
  [clothing |-> burnRadius(Dec(1, 0), E_Mt, E_J, K, D),
   second   |-> burnRadius(Dec(25, -2), E_Mt, E_J, K, D),
   third    |-> burnRadius(Dec(42, -2), E_Mt, E_J, K, D)]

\* lines 409-415: the velocity at the seafloor or the ground
craterVelocity(L0, rho_i, v_i, theta_rad, is_water, D) ==
  IF is_water
  THEN Mul(v_i,
           Math_exp(Div(Neg(Mul(Mul(Mul(Dec(3, 0), D.density_water),
                                    D.water_drag_coeff), D.water_depth_m)),
                        Mul(Mul(Mul(Dec(2, 0), L0), Math_sin(theta_rad)), rho_i))))
  ELSE v_i

\* lines 417-421: the transient diameter
craterDtc(L0, rho_i, adjusted_v_i, theta_rad, rho_t) ==
  Mul(Mul(Mul(Mul(Mul(Dec(1161, -3), Math_pow(Div(rho_i, rho_t), 1, 3)),
                  Math_pow(L0, 78, 100)),
              Math_pow(adjusted_v_i, 44, 100)),
          Math_pow(G, -22, 100)),
      Math_pow(Math_sin(theta_rad), 1, 3))

\* lines 426-433: the final rim diameter
craterDfr(Dtc) ==
  IF Lt(Dtc, Dec(3200, 0)) THEN Mul(Dec(125, -2), Dtc)
  ELSE Div(Mul(Dec(117, -2), Math_pow(Dtc, 113, 100)),
           Math_pow(Dec(3200, 0), 13, 100))

\* the final depth
craterdfr(Dtc, dtc, Dfr) ==
  IF Lt(Dtc, Dec(3200, 0)) THEN dtc
  ELSE Mul(Dec(1000, 0),
           Mul(Dec(294, -3), Math_pow(Div(Dfr, Dec(1000, 0)), 301, 1000)))

\* line 438: the four dimensions, capped at the Earth's diameter
craterCapped(Dtc, dtc, Dfr, dfr) ==
  [Dtc |-> Math_min(Dtc, EARTH_DIAMETER), dtc |-> Math_min(dtc, EARTH_DIAMETER),
   Dfr |-> Math_min(Dfr, EARTH_DIAMETER), dfr |-> Math_min(dfr, EARTH_DIAMETER)]

craterFinal(Dtc, dtc, Dfr) == craterCapped(Dtc, dtc, Dfr, craterdfr(Dtc, dtc, Dfr))

craterFromDtc(Dtc) ==
  craterFinal(Dtc, Div(Dtc, Mul(Dec(2, 0), Math_sqrt(Dec(2, 0)))), craterDfr(Dtc))

transientCrater(L0, rho_i, v_i, theta_rad, is_water, D) ==
  craterFromDtc(
    craterDtc(L0, rho_i, craterVelocity(L0, rho_i, v_i, theta_rad, is_water, D),
              theta_rad, IF is_water THEN Dec(2700, 0) ELSE Dec(2500, 0)))

\* lines 442-455: the transient crater in the water layer
oceanWaterCrater(L0, rho_i, v_i, theta_rad) ==
  Mul(Mul(Mul(Mul(Mul(Dec(1365, -3), Math_pow(Div(rho_i, Dec(1000, 0)), 1, 3)),
                  Math_pow(L0, 78, 100)),
              Math_pow(v_i, 44, 100)),
          Math_pow(G, -22, 100)),
      Math_pow(Math_sin(theta_rad), 1, 3))

\* a variant with the lower threshold in the place of the upper one
volumeEffectLowThreshold(ratio) ==
  IF Gt(ratio, Dec(1, -1)) THEN "destroyed"
  ELSE IF Ge(ratio, Dec(1, -1)) THEN "strongly_disturbed"
  ELSE "negligible_disturbed"

\* lines 467-469
volumeEffect(ratio) ==
  IF Gt(ratio, Dec(5, -1)) THEN "destroyed"
  ELSE IF Ge(ratio, Dec(1, -1)) THEN "strongly_disturbed"
  ELSE "negligible_disturbed"

volumeResult(Vtc_km3, ratio) ==
  [Vtc_km3 |-> Vtc_km3, ratio |-> ratio, effect |-> volumeEffect(ratio)]

volumeRatio(Vtc_km3) == volumeResult(Vtc_km3, Math_min(Div(Vtc_km3, VE_KM3), One))

craterVolumeAndEffect(Dtc_m) ==
  IF Ge(Dtc_m, EARTH_DIAMETER)
  THEN [Vtc_km3 |-> VE_KM3, ratio |-> One, effect |-> "destroyed"]
  ELSE volumeRatio(Div(Div(Mul(PI, Math_pow(Dtc_m, 3, 1)),
                           Mul(Dec(16, 0), Math_sqrt(Dec(2, 0)))),
                       Dec(1, 9)))

\* massive_Earthquake_milestones: the keys (times 100) in the order written
MilestoneKeys == <<1200, 1280, 1350, 1420, 1500, 1513, 1620>>

massive_Earthquake_milestones(k) ==
  CASE k = 1200 -> "Very large regional catastrophe. Cities destroyed across hundreds of kilometers."
    [] k = 1280 -> "Over 1 yottajoule of energy. Continental-scale disruption."
    [] k = 1350 -> "Extreme continental catastrophe."
    [] k = 1420 -> "Global mechanical crisis."
    [] k = 1500 -> "Over 64% of energy needed to vaporize all oceans."
    [] k = 1513 -> "Beyond threshold to vaporize Earth's oceans"
    [] k = 1620 -> "Planet-scale resurfacing and mantle upheaval."
    [] OTHER -> ""

\* the keys of seq that satisfy (or not) being an integer index
RECURSIVE KeysWhere(_, _)
KeysWhere(seq, isIndex) ==
  IF seq = <<>> THEN <<>>
  ELSE IF (Head(seq) % 100 = 0) = isIndex
       THEN <<Head(seq)>> \o KeysWhere(Tail(seq), isIndex)
       ELSE KeysWhere(Tail(seq), isIndex)

\* Object.keys: integer keys first, in ascending order, then the other keys
\* in the order they were written
ObjectKeys(seq) ==
  SortSeq(KeysWhere(seq, TRUE), LAMBDA a, b: a < b) \o KeysWhere(seq, FALSE)

\* Array.prototype.reduce without an initial value, with the callback
\* (prev, curr) => (curr - M <= 0 ? curr : prev)
RECURSIVE ReduceFloor(_, _, _)
ReduceFloor(prev, rest, M) ==
  IF rest = <<>> THEN prev
  ELSE ReduceFloor(IF Le(Sub(Dec(Head(rest), -2), M), Zero) THEN Head(rest) ELSE prev,
                   Tail(rest), M)

\* a variant whose reduce starts from 0, which is no key of the table
closestFloorFromZero(keys, M) == ReduceFloor(0, keys, M)

\* lines 497-499
closestFloor(keys, M) == ReduceFloor(Head(keys), Tail(keys), M)

seismicRadius(M, regime, r) ==
  [M |-> M, radius_km |-> r, radius_m |-> Mul(r, Dec(1000, 0)),
   regime |-> regime, floor |-> 0, description |-> "undefined"]

seismicMilestone(M, floor) ==
  [M |-> M, radius_km |-> Null, radius_m |-> Null, regime |-> 0, floor |-> floor,
   description |-> massive_Earthquake_milestones(floor)]

\* a variant whose first regime has no upper limit
seismicRegimesNoUpper(M, r1, r2, exp3) ==
  IF Ge(r1, Zero) THEN seismicRadius(M, 1, r1)
  ELSE IF Ge(r2, Dec(60, 0)) /\ Le(r2, Dec(700, 0)) THEN seismicRadius(M, 2, r2)
  ELSE IF Gt(exp3, Dec(700, 0)) THEN seismicRadius(M, 3, exp3)
  ELSE seismicMilestone(M, closestFloor(ObjectKeys(MilestoneKeys), M))

\* lines 479-503: the first regime whose validity check accepts its radius
seismicRegimes(M, r1, r2, exp3) ==
  IF Ge(r1, Zero) /\ Le(r1, Dec(60, 0)) THEN seismicRadius(M, 1, r1)
  ELSE IF Ge(r2, Dec(60, 0)) /\ Le(r2, Dec(700, 0)) THEN seismicRadius(M, 2, r2)
  ELSE IF Gt(exp3, Dec(700, 0)) THEN seismicRadius(M, 3, exp3)
  ELSE seismicMilestone(M, closestFloor(ObjectKeys(MilestoneKeys), M))

seismicFromM(M, threshold) ==
  seismicRegimes(M,
                 Div(Sub(M, threshold), Dec(238, -4)),
                 Div(Sub(Sub(M, Dec(11644, -4)), threshold), Dec(48, -4)),
                 Pow10(Div(Sub(Sub(M, Dec(6399, -3)), threshold), Dec(166, -2))))

seismicMagnitudeAndRadius(E_J, threshold) ==
  seismicFromM(Sub(Mul(Dec(67, -2), Math_log10(E_J)), Dec(587, -2)), threshold)

calculateOverpressureEq54(r_x, r_1) ==
  Mul(Div(Mul(Dec(75000, 0), r_x), Mul(Dec(4, 0), r_1)),
      Add(One, Mul(Dec(3, 0), Math_pow(Div(r_x, r_1), 13, 10))))

\* which of peakOverpressureAtR's three models the burst altitude selects
OverpressureBranch(zb_m) ==
  IF Le(zb_m, Zero) THEN "surface"
  ELSE IF Gt(zb_m, Dec(10000, 0)) THEN "high"
  ELSE "low"

\* lines 519-533, at the scaled distance r_1
overpressureScaled(r_1, zb_m) ==
  IF OverpressureBranch(zb_m) = "high"
  THEN Mul(Mul(Dec(314, 9), Math_pow(zb_m, -26, 10)),
           Math_exp(Mul(Neg(Mul(Dec(3487, -2), Math_pow(zb_m, -173, 100))), r_1)))
  ELSE calculateOverpressureEq54(
         IF OverpressureBranch(zb_m) = "surface" THEN Dec(290, 0)
         ELSE Add(Dec(289, 0), Div(Mul(Dec(65, -2), zb_m), Dec(50, 0))),
         r_1)

peakOverpressureAtR(r_m, E_Mt, zb_m) ==
  overpressureScaled(Div(r_m, Math_pow(Mul(E_Mt, Dec(1000, 0)), 1, 3)), zb_m)

peakWindSpeed(overpressure_Pa, P_0, c_0) ==
  Mul(Div(Mul(Dec(5, 0), overpressure_Pa), Mul(Dec(7, 0), P_0)),
      Div(c_0, Math_sqrt(Add(One, Div(Mul(Dec(6, 0), overpressure_Pa),
                                      Mul(Dec(7, 0), P_0))))))

----------------------------------------------------------------------------
(* findRadiusForOverpressure: the frame of one call. *)

maxIter == 200
tol == Dec(1, -6)

\* a variant without the clamp to r_max
findRadiusGuardsNoMax(r_min0, f) ==
  IF ~isFinite(f.targetP) \/ Le(f.targetP, Zero)
  THEN [f EXCEPT !.how = "nan", !.ret = NaN, !.r_min = r_min0,
                 !.pAtMin = NaN, !.pAtMax = NaN]
  ELSE IF Ge(f.targetP, f.pAtMin) THEN [f EXCEPT !.how = "min", !.ret = f.r_min]
  ELSE [f EXCEPT !.looping = TRUE]

\* lines 545-555: the guards before the loop, on the frame f that holds the
\* bracket; r_min0 is r_min as line 544 left it
findRadiusGuards(r_min0, f) ==
  IF ~isFinite(f.targetP) \/ Le(f.targetP, Zero)
  THEN [f EXCEPT !.how = "nan", !.ret = NaN, !.r_min = r_min0,
                 !.pAtMin = NaN, !.pAtMax = NaN]
  ELSE IF Ge(f.targetP, f.pAtMin) THEN [f EXCEPT !.how = "min", !.ret = f.r_min]
  ELSE IF Le(f.targetP, f.pAtMax) THEN [f EXCEPT !.how = "max", !.ret = f.r_max]
  ELSE [f EXCEPT !.looping = TRUE]

\* lines 548-555: the bracket [r_min, r_max] and the pressures at its ends
findRadiusBracket(name, targetP, E_Mt, zb_m, r_min_arg, r_max, r_min0, r_min) ==
  findRadiusGuards(r_min0,
    [name |-> name, targetP |-> targetP, E_Mt |-> E_Mt, zb_m |-> zb_m,
     r_min_arg |-> r_min_arg, r_min |-> r_min, r_max |-> r_max,
     pAtMin |-> peakOverpressureAtR(r_min, E_Mt, zb_m),
     pAtMax |-> peakOverpressureAtR(r_max, E_Mt, zb_m),
     lo |-> RFromNum(r_min), hi |-> RFromNum(r_max), i |-> 0,
     looping |-> FALSE, how |-> "loop", ret |-> NaN])

\* line 546: if (r_min <= 0) r_min = 1e-6
findRadiusFloor(name, targetP, E_Mt, zb_m, r_min_arg, r_max, r_min0) ==
  findRadiusBracket(name, targetP, E_Mt, zb_m, r_min_arg, r_max, r_min0,
                    IF Le(r_min0, Zero) THEN Dec(1, -6) ELSE r_min0)

\* a variant that resets r_min for every burst altitude that is not negative
findRadiusEnterGe(name, targetP, E_Mt, zb_m, r_min_arg, r_max) ==
  findRadiusFloor(name, targetP, E_Mt, zb_m, r_min_arg, r_max,
                  IF Ge(zb_m, Zero) THEN Zero ELSE r_min_arg)

\* lines 544-555: a frame that has already returned (looping = FALSE) or that
\* enters the loop with lo, hi and i = 0
findRadiusEnter(name, targetP, E_Mt, zb_m, r_min_arg, r_max) ==
  findRadiusFloor(name, targetP, E_Mt, zb_m, r_min_arg, r_max,
                  IF Gt(zb_m, Zero) THEN Zero ELSE r_min_arg)

\* a variant that only counts the iterations
LoopCondNoTol(f) == f.i < maxIter

\* line 559: i < maxIter && (hi - lo) / Math.max(1, lo) > tol
LoopCond(f) ==
  /\ f.i < maxIter
  /\ Gt(Div(RToNum(RSub(f.hi, f.lo)), Math_max(One, RToNum(f.lo))), tol)

\* a variant that keeps the wrong half of the bracket
findRadiusHalveSwapped(f, mid) ==
  IF Ge(peakOverpressureAtR(RToNum(mid), f.E_Mt, f.zb_m), f.targetP)
  THEN [f EXCEPT !.hi = mid, !.i = f.i + 1]
  ELSE [f EXCEPT !.lo = mid, !.i = f.i + 1]

\* lines 561-566: the half of the bracket that mid and p(mid) select
findRadiusHalve(f, mid) ==
  IF Ge(peakOverpressureAtR(RToNum(mid), f.E_Mt, f.zb_m), f.targetP)
  THEN [f EXCEPT !.lo = mid, !.i = f.i + 1]
  ELSE [f EXCEPT !.hi = mid, !.i = f.i + 1]

\* lines 560-566: one pass of the loop
findRadiusStep(f) == findRadiusHalve(f, RMid(f.lo, f.hi))

\* line 569 (or the early return the frame already holds)
findRadiusReturn(f) ==
  IF f.looping THEN RToNum(RMid(f.lo, f.hi)) ELSE f.ret

----------------------------------------------------------------------------
(* computeImpactEffectsServer. *)

\* lines 583-593: the tunables, the entry angle and the energy
localsTunables(inp, D) ==
  [K |-> Nullish(inp.K, D.K), Cd |-> Nullish(inp.Cd, D.Cd),
   rho0 |-> Nullish(inp.rho0, D.rho0), H |-> D.H,
   theta_rad |-> ThetaRad(inp.theta_deg),
   en |-> energyFromDiameter(inp.mass, inp.v0)]

\* lines 591-596
localsEntry(inp, c) ==
  c @@ [Tre_years |-> Mul(Dec(109, 0),
                          Math_pow(Math_max(c.en.E_Mt, Dec(1, -12)), 78, 100)),
        v_i |-> intactSurfaceVelocity(inp.v0, inp.L0, inp.rho_i, c.theta_rad,
                                      c.Cd, c.rho0, c.H),
        bz |-> breakupIfAndZstar(inp.L0, inp.rho_i, inp.v0, c.theta_rad,
                                 c.Cd, c.H, c.rho0)]

\* line 597: pancakeAirburstAltitude is called with four arguments, the rest
\* are its defaults
localsBurst(inp, D, c) ==
  c @@ [zb |-> IF c.bz.breakup
               THEN pancakeAirburstAltitude(inp.L0, inp.rho_i, c.theta_rad,
                                            c.bz.z_star, D.H, D.fp, D.Cd, D)
               ELSE Zero]

\* lines 598-640
localsGround(inp, D, c) ==
  c @@ [airburst |-> c.bz.breakup /\ Gt(c.zb, Zero),
        burns |-> burnRadii(c.en.E_Mt, c.en.E_J, c.K, D),
        Rf_m |-> fireballRadius(c.en.E_J),
        crater |-> transientCrater(inp.L0, inp.rho_i, c.v_i, c.theta_rad,
                                   inp.is_water, D),
        seismic |-> seismicMagnitudeAndRadius(c.en.E_J, Dec(75, -1))]

localsVolume(c) == c @@ [vol |-> craterVolumeAndEffect(c.crater.Dtc)]

\* lines 607-640: the crater and seismic fields start as null and are
\* assigned only inside the two blocks that the guard opens
localsGuarded(c, guard) ==
  [K |-> c.K, Cd |-> c.Cd, rho0 |-> c.rho0, H |-> c.H,
   m |-> c.en.m, E_J |-> c.en.E_J, E_Mt |-> c.en.E_Mt, Tre_years |-> c.Tre_years,
   If |-> c.bz.If, z_star |-> c.bz.z_star, breakup |-> c.bz.breakup,
   zb |-> c.zb, airburst |-> c.airburst, v_i |-> c.v_i,
   burns |-> c.burns, Rf_m |-> c.Rf_m,
   Dtc |-> IF guard THEN c.crater.Dtc ELSE Null,
   dtc |-> IF guard THEN c.crater.dtc ELSE Null,
   Dfr |-> IF guard THEN c.crater.Dfr ELSE Null,
   dfr |-> IF guard THEN c.crater.dfr ELSE Null,
   Vtc_km3 |-> IF guard THEN Math_min(c.vol.Vtc_km3, VE_KM3) ELSE Null,
   ratio |-> IF guard THEN c.vol.ratio ELSE Null,
   effect |-> IF guard THEN c.vol.effect ELSE "negligible_disturbed",
   Magnitude |-> IF guard THEN c.seismic.M ELSE Null,
   radius_km |-> IF guard THEN c.seismic.radius_km ELSE Null,
   radius_m |-> IF guard THEN c.seismic.radius_m ELSE Null,
   regime |-> IF guard THEN c.seismic.regime ELSE 0,
   floor |-> IF guard THEN c.seismic.floor ELSE 0,
   earthquake_description |->
     IF guard THEN c.seismic.description ELSE "undefined",
   r_building |-> NaN, r_glass |-> NaN, r_ionization |-> NaN,
   overpressureAt50_km |-> NaN, windspeedAt50_km |-> NaN]

\* a variant that computes the crater and the earthquake for every impact
localsResultUnguarded(c) == localsGuarded(c, TRUE)

\* lines 615 and 629: if (!airburst)
localsResult(c) == localsGuarded(c, ~c.airburst)

\* a variant that stores the tunable it resolved back into DEFAULTS
defaultsAfterWriteBack(inp, D) == [D EXCEPT !.K = Nullish(inp.K, D.K)]

\* lines 581-679: DEFAULTS after a call; no statement of the function assigns
\* DEFAULTS or one of its fields
defaultsAfter(inp, D) == D

\* lines 582-640: everything before the air-blast radii
computeLocals(inp, D) ==
  localsResult(
    localsVolume(
      localsGround(inp, D,
        localsBurst(inp, D, localsEntry(inp, localsTunables(inp, D))))))

\* lines 649-676: the DamageResults object
assembleResults(c) ==
  [E_J |-> c.E_J, E_Mt |-> c.E_Mt, Tre_years |-> c.Tre_years, m_kg |-> c.m,
   zb_breakup |-> c.zb, airburst |-> c.airburst, v_impact_for_crater |-> c.v_i,
   Rf_m |-> c.Rf_m, r_clothing_m |-> c.burns.clothing,
   r_2nd_burn_m |-> c.burns.second, r_3rd_burn_m |-> c.burns.third,
   Dtc_m |-> c.Dtc, dtc_m |-> c.dtc, Dfr_m |-> c.Dfr, dfr_m |-> c.dfr,
   Vtc_km3 |-> c.Vtc_km3, Vtc_over_Ve |-> c.ratio, earth_effect |-> c.effect,
   Magnitude |-> c.Magnitude, radius_M_ge_7_5_m |-> c.radius_m,
   earthquake_description |-> c.earthquake_description,
   airblast_radius_building_collapse_m |-> c.r_building,
   airblast_radius_glass_shatter_m |-> c.r_glass,
   overpressure_at_50_km |-> c.overpressureAt50_km,
   wind_speed_at_50_km |-> c.windspeedAt50_km,
   ionization_radius |-> c.r_ionization]

----------------------------------------------------------------------------
(* The inputs the model draws. *)

\* (mass kg, diameter m, density kg/m^3) of the impactors
Body(mass, diameter, density) ==
  [mass |-> mass, diameter |-> diameter, density |-> density]

ValidBodies ==
  { Body(Dec(5236, -1), Dec(5, -1), Dec(8000, 0)),          \* 0.5 m iron
    Body(Dec(125663706, -1), Dec(20, 0), Dec(3000, 0)),     \* 20 m stony
    Body(Dec(339292007, 0), Dec(60, 0), Dec(3000, 0)),      \* 60 m stony
    Body(Dec(125663706, 2), Dec(200, 0), Dec(3000, 0)),     \* 200 m stony
    Body(Dec(157079633, 4), Dec(1000, 0), Dec(3000, 0)),    \* 1 km stony
    Body(Dec(629, 11), Dec(3420, 0), Dec(3000, 0)),         \* 3.4 km stony
    Body(Dec(157079633, 7), Dec(10000, 0), Dec(3000, 0)),   \* 10 km stony
    Body(Dec(1, 23), Dec(5, 6), Dec(3000, 0)),              \* a small planet
    Body(Dec(2, 28), Dec(1, 8), Dec(3000, 0)),              \* a giant planet
    Body(Dec(1, 301), Dec(1, 8), Dec(3000, 0)),             \* its energy overflows
    Body(Dec(1, -14), Dec(60, 0), Dec(3000, 0)) }           \* 60 m, no mass to speak of

InvalidBodies ==
  { Body(Zero, Dec(20, 0), Dec(3000, 0)),
    Body(Dec(-1, 3), Dec(20, 0), Dec(3000, 0)),
    Body(NaN, Dec(20, 0), Dec(3000, 0)),
    Body(NaN, Dec(1, -1), Dec(8000, 0)),
    Body(Dec(157079633, -2), Dec(-10, 0), Dec(3000, 0)),
    Body(Dec(125663706, -1), Dec(20, 0), Zero) }

ValidSpeeds == { Dec(12000, 0), Dec(20000, 0) }
InvalidSpeeds == { Zero, Dec(-20000, 0) }
ValidAngles == { Dec(1, 0), Dec(45, 0), Dec(90, 0) }
InvalidAngles == { Zero, Dec(-45, 0), Dec(135, 0) }

\* the X-API-Key header of a request: absent, or present with a value
Header(present, value) == [present |-> present, value |-> value]

\* a request without generateReport and without an X-API-Key header
RequestBody(hasMeteor, hasLocation, b, speed, angle) ==
  [meteorData |-> hasMeteor, impactLocation |-> hasLocation,
   mass |-> b.mass, diameter |-> b.diameter, speed |-> speed, angle |-> angle,
   density |-> b.density, generateReport |-> FALSE, apiKey |-> Header(FALSE, "")]

\* requests whose fields are all present
CompleteBodies ==
  { RequestBody(TRUE, TRUE, b, v, a) :
      b \in ValidBodies, v \in ValidSpeeds, a \in ValidAngles \cup InvalidAngles }
  \cup { RequestBody(TRUE, TRUE, b, Dec(20000, 0), Dec(45, 0)) : b \in InvalidBodies }
  \cup { RequestBody(TRUE, TRUE, Body(Dec(339292007, 0), Dec(60, 0), Dec(3000, 0)),
                     v, Dec(45, 0)) : v \in InvalidSpeeds }

requiredMeteorFields == <<"mass", "diameter", "speed", "angle", "density">>

\* requests with meteorData or impactLocation absent, or with one or two of the
\* required fields undefined or null
IncompleteBodies ==
  LET base == RequestBody(TRUE, TRUE,
                          Body(Dec(339292007, 0), Dec(60, 0), Dec(3000, 0)),
                          Dec(20000, 0), Dec(45, 0))
  IN { [base EXCEPT !.meteorData = FALSE], [base EXCEPT !.impactLocation = FALSE],
       [base EXCEPT !.meteorData = FALSE, !.impactLocation = FALSE] }
     \cup { [base EXCEPT ![requiredMeteorFields[i]] = v] :
              i \in 1..5, v \in {Undefined, Null} }
     \cup { [base EXCEPT ![requiredMeteorFields[i]] = v, !.density = Null] :
              i \in 1..4, v \in {Undefined, Null} }

\* the headers that requests carry: none, an empty one, the key of the
\* registered account and a key that nobody registered
ApiKeyHeaders ==
  { Header(FALSE, ""), Header(TRUE, ""), Header(TRUE, "as_alice"),
    Header(TRUE, "as_mallory") }

\* requests for a report, and requests without one that carry a key
ReportBodies ==
  LET base == RequestBody(TRUE, TRUE,
                          Body(Dec(339292007, 0), Dec(60, 0), Dec(3000, 0)),
                          Dec(20000, 0), Dec(45, 0))
  IN { [base EXCEPT !.generateReport = TRUE, !.apiKey = h] : h \in ApiKeyHeaders }
     \cup { [base EXCEPT !.apiKey = h] : h \in ApiKeyHeaders }
     \cup { [base EXCEPT !.generateReport = TRUE, !.density = Null] }

RequestBodies == CompleteBodies \cup IncompleteBodies \cup ReportBodies

\* the requests sent to POST /api/compute-impact
ComputeImpactBodies ==
  { RequestBody(TRUE, TRUE, b, Dec(20000, 0), Dec(45, 0)) :
      b \in { Body(Dec(125663706, -1), Dec(20, 0), Dec(3000, 0)),
              Body(Dec(157079633, 4), Dec(1000, 0), Dec(3000, 0)) } }
  \cup { [RequestBody(TRUE, TRUE, Body(Dec(157079633, 4), Dec(1000, 0), Dec(3000, 0)),
                      Dec(20000, 0), Dec(45, 0)) EXCEPT !.generateReport = TRUE],
         RequestBody(TRUE, FALSE, Body(Dec(157079633, 4), Dec(1000, 0), Dec(3000, 0)),
                     Dec(20000, 0), Dec(45, 0)) }

DamageInputs(mass, L0, rho_i, v0, theta_deg, is_water, K, Cd, rho0, H) ==
  [mass |-> mass, L0 |-> L0, rho_i |-> rho_i, v0 |-> v0, theta_deg |-> theta_deg,
   is_water |-> is_water, K |-> K, Cd |-> Cd, rho0 |-> rho0, H |-> H]

\* direct calls of the exported function, with and without the tunables
DirectInputs ==
  { DamageInputs(b.mass, b.diameter, b.density, Dec(20000, 0), Dec(45, 0), FALSE,
                 K, Cd, rho0, H) :
      b \in { Body(Dec(339292007, 0), Dec(60, 0), Dec(3000, 0)),
              Body(Dec(157079633, 7), Dec(10000, 0), Dec(3000, 0)) },
      K \in {Undefined, Dec(1, -3)}, Cd \in {Undefined, Dec(1, 0)},
      rho0 \in {Undefined, Dec(12, -1)}, H \in {Undefined, Dec(7000, 0)} }

\* the direct calls whose results are remembered
Probes ==
  { i \in DirectInputs : /\ i.L0 = Dec(60, 0)
                         /\ i.Cd = Undefined /\ i.rho0 = Undefined /\ i.H = Undefined }

----------------------------------------------------------------------------
(* State. *)

VARIABLES
  DEFAULTS,   \* the module-level DEFAULTS object of the physics engine
  pc,         \* where the current request or call stands
  caller,     \* "none", "POST" (impact-engine), "compute-impact" or "direct"
  body,       \* the body of the request being handled
  response,   \* the response of the handler: status (0: none yet) and error
  effects,    \* the collaborators the handler has invoked for this request
  inputs,     \* the DamageInputs of the running computeImpactEffectsServer
  loc,        \* its locals
  frame,      \* the running findRadiusForOverpressure
  results,    \* the DamageResults it returned
  memo,       \* (inputs, results, "first" or "again") of the completed probe calls
  redis,      \* the Upstash store: key index, accounts, usage counter, reports
  r2,         \* the keys of the objects uploaded to the R2 bucket
  tsunamiResults, \* the Tsunami_Results of the compute-impact request
  handlers,   \* the route handlers that run concurrently: where each stands
  issued,     \* what left the system: tokens mailed, keys and report ids returned
  game        \* the state of the asteroid-defense page

vars == <<DEFAULTS, pc, caller, body, response, effects, inputs, loc, frame,
          results, memo, redis, r2, tsunamiResults, handlers, issued, game>>

\* the two stores outside the process
stores == <<redis, r2>>

\* what a single request to the impact routes leaves alone
others == <<handlers, issued, game>>

\* the state of a single request to the impact routes and of the engine
engine == <<DEFAULTS, pc, caller, body, response, effects, inputs, loc, frame,
            results, memo, tsunamiResults>>

NoBody == [meteorData |-> FALSE, impactLocation |-> FALSE, none |-> TRUE]
NoResponse == [status |-> 0, error |-> ""]
NoInputs == [none |-> TRUE]
NoLocals == [none |-> TRUE]
NoFrame == [name |-> "none", looping |-> FALSE, i |-> 0]
NoResults == [none |-> TRUE]
NoTsunami == [none |-> TRUE]

\* lines 38-40: sha256Hex, a digest that tells the keys of the model apart
sha256Hex(str) == "sha256:" \o str

\* lines 27-30: the names of the Redis keys
keyKey(apiKeyHash) == "key:" \o apiKeyHash
keyAcct(email) == "acct:" \o email

keyPending(tokenHash) == "pending:" \o tokenHash
keyRotatePending(tokenHash) == "rotate_pending:" \o tokenHash

\* the store as the registration left it: one account, of alice, with its
\* key indexed by hash and a daily limit of two reports; usage is the counter
\* of alice for today, reports the ids of the stored report metadata, pending
\* the confirmation tokens (by hash) that wait for their confirmation
REDIS_INIT ==
  [kv |-> (keyKey(sha256Hex("as_alice")) :> "alice@example.org"),
   acct |-> (keyAcct("alice@example.org") :>
               [apiKeyHash |-> sha256Hex("as_alice"), dailyReportLimit |-> 2]),
   usage |-> 0,
   reports |-> {},
   pending |-> <<>>]

\* budgets in hundredths of a billion dollars
Billions(n) == n * 100

\* lines 94-113: the state of the page when it is mounted; the budget in
\* hundredths of a billion, the game time in seconds of the timer, the event
\* log as the number of its entries, generated as the number of asteroids
\* generateAsteroid has made (their ids), presses as the number of action
\* buttons the player has pressed. gameSpeed, livesAtRisk, livesSaved and the score, whose
\* amounts come from gameUtils, are left out
GAME_INIT ==
  [currentTime |-> 0, isPlaying |-> TRUE, budget |-> Billions(50),
   trustPoints |-> 75, falseAlarms |-> 0,
   asteroids |-> <<>>, isClientInitialized |-> FALSE,
   selectedAsteroid |-> 0, eventLog |-> 0, generated |-> 0, presses |-> 0]

\* a handler that runs no request
NoHandler == [route |-> "none", pc |-> "idle", status |-> 0, error |-> ""]

\* the handlers that may run at the same time
NHandlers == 3
Handlers == 1..NHandlers

\* nothing has left the system yet: no token mailed, no API key drawn or
\* returned, no UUID drawn, no report request let through the quota check,
\* no report id returned
ISSUED_INIT ==
  [tokens |-> {}, apiKeys |-> {}, keys |-> {}, uuids |-> {}, passed |-> 0,
   answers |-> {}]

\* redis.get of a key of the key index: the email, "null" when it is not there
redisGet(store, key) == IF key \in DOMAIN store.kv THEN store.kv[key] ELSE "null"

Init ==
  /\ DEFAULTS = DEFAULTS_INIT
  /\ pc = "idle"
  /\ caller = "none"
  /\ body = NoBody
  /\ response = NoResponse
  /\ effects = {}
  /\ inputs = NoInputs
  /\ loc = NoLocals
  /\ frame = NoFrame
  /\ results = NoResults
  /\ memo = {}
  /\ redis = REDIS_INIT
  /\ r2 = {}
  /\ tsunamiResults = NoTsunami
  /\ handlers = [i \in Handlers |-> NoHandler]
  /\ issued = ISSUED_INIT
  /\ game = GAME_INIT

----------------------------------------------------------------------------
(* POST /api/impact-engine. *)

\* lines 96-104: the first required field that is undefined or null, or ""
RECURSIVE firstMissingField(_, _)
firstMissingField(meteorData, fields) ==
  IF fields = <<>> THEN ""
  ELSE IF meteorData[Head(fields)].k = "undef" \/ meteorData[Head(fields)].k = "null"
       THEN Head(fields)
       ELSE firstMissingField(meteorData, Tail(fields))

\* a variant that forgets to look for impactLocation
validateNoLocation(b) ==
  IF ~b.meteorData
  THEN [status |-> 400, error |-> "Missing meteorData or impactLocation"]
  ELSE IF firstMissingField(b, requiredMeteorFields) # ""
  THEN [status |-> 400,
        error |-> "Missing meteoroid parameter: " \o
                  firstMissingField(b, requiredMeteorFields)]
  ELSE NoResponse

\* lines 86-104: the response of the validation, NoResponse if it passes
validate(b) ==
  IF ~b.meteorData \/ ~b.impactLocation
  THEN [status |-> 400, error |-> "Missing meteorData or impactLocation"]
  ELSE IF firstMissingField(b, requiredMeteorFields) # ""
  THEN [status |-> 400,
        error |-> "Missing meteoroid parameter: " \o
                  firstMissingField(b, requiredMeteorFields)]
  ELSE NoResponse

\* lines 109-118
damageInputs(b, is_water) ==
  DamageInputs(b.mass, b.diameter, b.density, b.speed, b.angle, is_water,
               Undefined, Undefined, Undefined, Undefined)

\* the call record of the next findRadiusForOverpressure: lines 643, 644, 647
Call(name, targetP, r_min_arg) ==
  [name |-> name, targetP |-> targetP, r_min_arg |-> r_min_arg,
   looping |-> FALSE, i |-> 0]

\* a request arrives: lines 86-104, then the handler awaits isOverWater
POST(b) ==
  /\ pc \in {"idle", "responded"}
  /\ body' = b
  /\ effects' = {}
  /\ response' = validate(b)
  /\ pc' = IF validate(b).status = 0 THEN "isOverWater" ELSE "responded"
  /\ caller' = "POST"
  /\ inputs' = NoInputs
  /\ loc' = NoLocals
  /\ frame' = NoFrame
  /\ results' = NoResults
  /\ tsunamiResults' = NoTsunami
  /\ UNCHANGED <<others, DEFAULTS, memo, stores>>

\* lines 107-120: the water lookup answers and the physics engine is called
IsOverWater(is_water) ==
  /\ pc = "isOverWater"
  /\ effects' = effects \cup {"isOverWater", "computeImpactEffects"}
  /\ inputs' = damageInputs(body, is_water)
  /\ pc' = "physics"
  /\ UNCHANGED <<others, DEFAULTS, caller, body, response, loc, frame, results, memo,
                 stores, tsunamiResults>>

\* another caller invokes the exported function
DirectCall(inp) ==
  /\ pc \in {"idle", "responded"}
  /\ caller' = "direct"
  /\ body' = NoBody
  /\ response' = NoResponse
  /\ effects' = {}
  /\ inputs' = inp
  /\ loc' = NoLocals
  /\ frame' = NoFrame
  /\ results' = NoResults
  /\ pc' = "physics"
  /\ tsunamiResults' = NoTsunami
  /\ UNCHANGED <<others, DEFAULTS, memo, stores>>

\* lines 582-643: computeImpactEffectsServer up to its first call of
\* findRadiusForOverpressure
ComputeLocals ==
  /\ pc = "physics"
  /\ loc' = computeLocals(inputs, DEFAULTS)
  /\ DEFAULTS' = defaultsAfter(inputs, DEFAULTS)
  /\ frame' = Call("building", Dec(273000, 0), loc'.Rf_m)
  /\ pc' = "call"
  /\ UNCHANGED <<others, caller, body, response, effects, inputs, results, memo, stores,
                 tsunamiResults>>

\* lines 544-555: findRadiusForOverpressure is entered
FindRadius ==
  /\ pc = "call"
  /\ frame' = findRadiusEnter(frame.name, frame.targetP, loc.E_Mt, loc.zb,
                              frame.r_min_arg, HALF_CIRCUMFERENCE_M)
  /\ pc' = "loop"
  /\ UNCHANGED <<others, DEFAULTS, caller, body, response, effects, inputs, loc, results,
                 memo, stores, tsunamiResults>>

\* one pass of the bisection loop
Iterate ==
  /\ pc = "loop"
  /\ frame.looping
  /\ LoopCond(frame)
  /\ frame' = findRadiusStep(frame)
  /\ UNCHANGED <<others, DEFAULTS, pc, caller, body, response, effects, inputs, loc,
                 results, memo, stores, tsunamiResults>>

\* lines 645-646
At50km(c, p50) ==
  [c EXCEPT !.overpressureAt50_km = p50,
            !.windspeedAt50_km = peakWindSpeed(p50, Dec(1, 5), Dec(330, 0))]

\* lines 643-647: the radius is stored and the next call is made
Continue(ret) ==
  /\ frame.name # "ionization"
  /\ loc' = IF frame.name = "building"
            THEN [loc EXCEPT !.r_building = ret]
            ELSE At50km([loc EXCEPT !.r_glass = ret],
                        peakOverpressureAtR(Dec(50000, 0), loc.E_Mt, loc.zb))
  /\ frame' = IF frame.name = "building"
              THEN Call("glass", Dec(6900, 0), loc.Rf_m)
              ELSE Call("ionization", Dec(7575, 4), Dec(50000, 0))
  /\ pc' = "call"
  /\ UNCHANGED <<results, memo>>

\* whether a probe call with these inputs has completed before
Nth(inp) == IF \E e \in memo : e[1] = inp THEN "again" ELSE "first"

\* lines 647-678: the last radius is stored and the results are returned
Finish(ret, res) ==
  /\ frame.name = "ionization"
  /\ loc' = [loc EXCEPT !.r_ionization = ret]
  /\ frame' = [frame EXCEPT !.looping = FALSE, !.ret = ret]
  /\ results' = res
  /\ pc' = CASE caller = "POST" -> "mortality"
              [] caller = "compute-impact" -> "tsunami"
              [] OTHER -> "responded"
  /\ memo' = IF caller = "direct" /\ inputs \in Probes
             THEN memo \cup {<<inputs, res, Nth(inputs)>>}
             ELSE memo

\* findRadiusForOverpressure returns
Returned(ret) ==
  \/ Continue(ret)
  \/ Finish(ret, assembleResults([loc EXCEPT !.r_ionization = ret]))

Return ==
  /\ pc = "loop"
  /\ ~(frame.looping /\ LoopCond(frame))
  /\ Returned(findRadiusReturn(frame))
  /\ UNCHANGED <<others, DEFAULTS, caller, body, response, effects, inputs, stores,
                 tsunamiResults>>

\* lines 141-147: report generation needs the X-API-Key header
requireApiKey(apiKey) ==
  IF ~apiKey.present \/ apiKey.value = ""
  THEN [status |-> 401, error |-> "API key required for report generation (X-API-Key)"]
  ELSE NoResponse

\* lines 139-147 and 220-223: the answer after the mortality estimate, or
\* NoResponse when the key index has to be asked first
afterEstimate(b) ==
  IF b.generateReport THEN requireApiKey(b.apiKey) ELSE [status |-> 200, error |-> ""]

\* lines 122-147 and 220-223: the mortality estimate answers; without
\* generateReport the handler responds 200 with the data, with it and
\* without a key it responds 401
EstimateAsteroidDeaths ==
  /\ pc = "mortality"
  /\ effects' = effects \cup {"estimateAsteroidDeaths"}
  /\ response' = afterEstimate(body)
  /\ pc' = IF afterEstimate(body) = NoResponse THEN "apiKey" ELSE "responded"
  /\ UNCHANGED <<others, DEFAULTS, caller, body, inputs, loc, frame, results, memo, stores,
                 tsunamiResults>>

\* a variant that takes every key for a valid one
validateApiKeyAny(email) == NoResponse

\* lines 152-155: the email the key index holds for the hash, if any
validateApiKey(email) ==
  IF email = "null" \/ email = ""
  THEN [status |-> 401, error |-> "Invalid API key"]
  ELSE NoResponse

\* line 152: the email of the account that owns the key of the request
emailOf(store, b) == redisGet(store, keyKey(sha256Hex(b.apiKey.value)))

\* lines 149-155: the key index answers
ValidateApiKey ==
  /\ pc = "apiKey"
  /\ effects' = effects \cup {"redis.get"}
  /\ response' = validateApiKey(emailOf(redis, body))
  /\ pc' = IF validateApiKey(emailOf(redis, body)) = NoResponse
            THEN "quota" ELSE "responded"
  /\ UNCHANGED <<others, DEFAULTS, caller, body, inputs, loc, frame, results, memo, stores,
                 tsunamiResults>>

DAILY_REPORT_LIMIT_DEFAULT == 20

\* lines 158-159: the limit of the account, the default without a record
dailyLimit(store, email) ==
  IF keyAcct(email) \in DOMAIN store.acct
  THEN store.acct[keyAcct(email)].dailyReportLimit
  ELSE DAILY_REPORT_LIMIT_DEFAULT

\* lines 165-179: the counter is incremented, and decremented again when
\* the new count exceeds the limit
Quota ==
  /\ pc = "quota"
  /\ effects' = effects \cup {"redis.get", "redis.incr"}
  /\ IF redis.usage + 1 > dailyLimit(redis, emailOf(redis, body))
     THEN /\ redis' = redis
          /\ response' = [status |-> 429,
                          error |-> "Report generation daily quota exceeded"]
          /\ pc' = "responded"
     ELSE /\ redis' = [redis EXCEPT !.usage = redis.usage + 1]
          /\ response' = response
          /\ pc' = "report"
  /\ UNCHANGED <<others, DEFAULTS, caller, body, inputs, loc, frame, results, memo, r2,
                 tsunamiResults>>

\* lines 47-49: a report id that no stored report has
newReportId(store) == "uuid-" \o ToString(Cardinality(store.reports) + 1)

\* lines 181-223: the PDF is generated and uploaded, its metadata stored,
\* and the handler responds 200 with the data and the report
GenerateReport ==
  /\ pc = "report"
  /\ effects' = effects \cup {"generateReportAction", "r2.send", "redis.set"}
  /\ r2' = r2 \cup {"reports/" \o newReportId(redis) \o ".pdf"}
  /\ redis' = [redis EXCEPT !.reports = redis.reports \cup {newReportId(redis)}]
  /\ response' = [status |-> 200, error |-> ""]
  /\ pc' = "responded"
  /\ UNCHANGED <<others, DEFAULTS, caller, body, inputs, loc, frame, results, memo,
                 tsunamiResults>>

----------------------------------------------------------------------------
(* POST /api/compute-impact. *)

\* a request arrives: lines 267-293, then the handler awaits isOverWater
POSTComputeImpact(b) ==
  /\ pc \in {"idle", "responded"}
  /\ body' = b
  /\ effects' = {}
  /\ response' = validate(b)
  /\ pc' = IF validate(b).status = 0 THEN "isOverWater" ELSE "responded"
  /\ caller' = "compute-impact"
  /\ inputs' = NoInputs
  /\ loc' = NoLocals
  /\ frame' = NoFrame
  /\ results' = NoResults
  /\ tsunamiResults' = NoTsunami
  /\ UNCHANGED <<others, DEFAULTS, memo, stores>>

\* the rim wave heights (m) that the closed form of the source model may give
\* before the cap, and the propagation figures that go with a wave
RawRimHeights == { Zero, Dec(25, 0), Dec(3682, 0), Dec(9000, 0) }

Propagations ==
  { [tsunami_radius |-> Dec(50, 3), max_tsunami_speed |-> Dec(190, 0),
     time_to_reach_1_km |-> Dec(53, -1), time_to_reach_100_km |-> Dec(526, 0)],
    [tsunami_radius |-> Dec(2, 6), max_tsunami_speed |-> Dec(120, 0),
     time_to_reach_1_km |-> Dec(83, -1), time_to_reach_100_km |-> Dec(833, 0)] }

ZeroTsunami ==
  [rim_wave_height |-> Zero, tsunami_radius |-> Zero, max_tsunami_speed |-> Zero,
   time_to_reach_1_km |-> Zero, time_to_reach_100_km |-> Zero]

\* tsunamiInfo: nothing but zeros unless the target is water, the impact is
\* no airburst and the rim height computes to more than 0; the rim height is
\* capped at the mean ocean depth. raw and wave are what the closed forms
\* give for the crater oceanWaterHit
tsunamiInfo(is_water, oceanWaterHit, airburst, raw, wave) ==
  IF ~is_water \/ airburst \/ ~Gt(raw, Zero) THEN ZeroTsunami
  ELSE [rim_wave_height |-> Math_min(raw, Dec(3682, 0)),
        tsunami_radius |-> wave.tsunami_radius,
        max_tsunami_speed |-> wave.max_tsunami_speed,
        time_to_reach_1_km |-> wave.time_to_reach_1_km,
        time_to_reach_100_km |-> wave.time_to_reach_100_km]

\* a variant that hands tsunamiInfo no airburst flag
tsunamiArgsNoAirburst(is_water, oceanWaterHit, airburst) ==
  [is_water |-> is_water, oceanWaterHit |-> oceanWaterHit, airburst |-> FALSE]

\* line 312: the arguments of the call of tsunamiInfo
tsunamiArgs(is_water, oceanWaterHit, airburst) ==
  [is_water |-> is_water, oceanWaterHit |-> oceanWaterHit, airburst |-> airburst]

\* line 311: oceanWaterCrater(damageInputs)
oceanWaterHit(inp, res) ==
  oceanWaterCrater(inp.L0, inp.rho_i, res.v_impact_for_crater, ThetaRad(inp.theta_deg))

\* lines 310-328: the tsunami is computed, the report (a log line) is made
\* when asked for, and the handler responds 200 with the impact results
TsunamiInfo(args, raw, wave) ==
  /\ pc = "tsunami"
  /\ tsunamiResults' = tsunamiInfo(args.is_water, args.oceanWaterHit, args.airburst,
                                   raw, wave)
  /\ effects' = effects \cup {"tsunamiInfo"}
                 \cup (IF body.generateReport THEN {"generateReportAction"} ELSE {})
  /\ response' = [status |-> 200, error |-> ""]
  /\ pc' = "responded"
  /\ UNCHANGED <<others, DEFAULTS, caller, body, inputs, loc, frame, results, memo, stores>>

Next ==
  \/ \E b \in RequestBodies : POST(b)
  \/ \E w \in BOOLEAN : IsOverWater(w)
  \/ ComputeLocals
  \/ FindRadius
  \/ Iterate
  \/ Return
  \/ EstimateAsteroidDeaths
  \/ ValidateApiKey
  \/ Quota
  \/ GenerateReport
  \/ \E b \in ComputeImpactBodies : POSTComputeImpact(b)
  \/ \E raw \in RawRimHeights, wave \in Propagations :
       TsunamiInfo(tsunamiArgs(inputs.is_water, oceanWaterHit(inputs, results),
                               results.airburst), raw, wave)

Spec == Init /\ [][Next]_vars

NextDirect ==
  \/ \E inp \in DirectInputs : DirectCall(inp)
  \/ ComputeLocals
  \/ FindRadius
  \/ Iterate
  \/ Return

SpecDirect == Init /\ [][NextDirect]_vars

----------------------------------------------------------------------------
(* POST /api/impact-engine with generateReport, as concurrent handlers: one
   step per Redis or R2 command the handler awaits. The physics and the
   mortality estimate of the request are done (lines 86-134). *)

\* handler i becomes h
Becomes(i, h) == handlers' = [handlers EXCEPT ![i] = h]

\* a handler that has answered
Answered(h, status, error) == [h EXCEPT !.pc = "done", !.status = status, !.error = error]

\* a handler that has thrown: lines 224-228, the answer is 500
Thrown(h, message) == Answered(h, 500, message)

\* line 186: the key of the PDF in the bucket
r2Key(reportId) == "reports/" \o reportId \o ".pdf"

\* lines 139-147: a request with generateReport arrives with the header h
ReportRequest(i, h) ==
  /\ handlers[i].pc \in {"idle", "done"}
  /\ Becomes(i, IF requireApiKey(h) = NoResponse
                THEN [route |-> "impact-engine", pc |-> "apiKey", apiKey |-> h,
                      email |-> "", dailyLimit |-> 0, newCount |-> 0,
                      reportId |-> "", status |-> 0, error |-> ""]
                ELSE [route |-> "impact-engine", pc |-> "done", apiKey |-> h,
                      email |-> "", dailyLimit |-> 0, newCount |-> 0,
                      reportId |-> "", status |-> requireApiKey(h).status,
                      error |-> requireApiKey(h).error])
  /\ UNCHANGED <<engine, stores, issued, game>>

\* lines 149-155: redis.get(keyKey(apiKeyHash))
ReportGetKey(i) ==
  LET h == handlers[i]
      email == redisGet(redis, keyKey(sha256Hex(h.apiKey.value)))
  IN /\ h.route = "impact-engine" /\ h.pc = "apiKey"
     /\ Becomes(i, IF validateApiKey(email) = NoResponse
                   THEN [h EXCEPT !.pc = "acct", !.email = email]
                   ELSE Answered(h, validateApiKey(email).status,
                                 validateApiKey(email).error))
     /\ UNCHANGED <<engine, stores, issued, game>>

\* lines 158-159: redis.get(keyAcct(email)) and the limit
ReportGetAcct(i) ==
  LET h == handlers[i]
  IN /\ h.route = "impact-engine" /\ h.pc = "acct"
     /\ Becomes(i, [h EXCEPT !.pc = "incr", !.dailyLimit = dailyLimit(redis, h.email)])
     /\ UNCHANGED <<engine, stores, issued, game>>

\* lines 162-170: redis.incr(usageKey), atomic in Redis; the TTL set on the
\* first increment does not show within the day
ReportIncr(i) ==
  LET h == handlers[i]
  IN /\ h.route = "impact-engine" /\ h.pc = "incr"
     /\ redis' = [redis EXCEPT !.usage = redis.usage + 1]
     /\ Becomes(i, [h EXCEPT !.pc = "quota", !.newCount = redis.usage + 1])
     /\ UNCHANGED <<engine, r2, issued, game>>

\* lines 172-174: the counter after the comparison, decremented when the
\* new count exceeds the limit
quotaRollback(newCount, limit, usage) ==
  IF newCount > limit THEN usage - 1 ELSE usage

\* a variant that compares the counter with the limit plus one
quotaExceededOffByOne(newCount, limit) == newCount > limit + 1

\* line 172: newCount > dailyLimit
quotaExceeded(newCount, limit) == newCount > limit

\* lines 172-179: the comparison, and redis.decr and 429 for a request over
\* the limit
ReportQuota(i) ==
  LET h == handlers[i]
  IN /\ h.route = "impact-engine" /\ h.pc = "quota"
     /\ redis' = [redis EXCEPT
                    !.usage = quotaRollback(h.newCount, h.dailyLimit, redis.usage)]
     /\ IF quotaExceeded(h.newCount, h.dailyLimit)
        THEN /\ Becomes(i, Answered(h, 429, "Report generation daily quota exceeded"))
             /\ issued' = issued
        ELSE /\ Becomes(i, [h EXCEPT !.pc = "generate"])
             /\ issued' = [issued EXCEPT !.passed = issued.passed + 1]
     /\ UNCHANGED <<engine, r2, game>>

\* lines 182-186: generateReportAction, which may throw, and newReportId
ReportGenerate(i, ok) ==
  LET h == handlers[i]
      id == newReportId([reports |-> issued.uuids])
  IN /\ h.route = "impact-engine" /\ h.pc = "generate"
     /\ IF ok
        THEN /\ Becomes(i, [h EXCEPT !.pc = "upload", !.reportId = id])
             /\ issued' = [issued EXCEPT !.uuids = issued.uuids \cup {id}]
        ELSE /\ Becomes(i, Thrown(h, "generateReportAction failed"))
             /\ issued' = issued
     /\ UNCHANGED <<engine, stores, game>>

\* a variant whose upload is not awaited: the handler goes on without it
ReportUploadNotAwaited(i, ok) ==
  LET h == handlers[i]
  IN /\ h.route = "impact-engine" /\ h.pc = "upload"
     /\ r2' = r2
     /\ Becomes(i, [h EXCEPT !.pc = "meta"])
     /\ UNCHANGED <<engine, redis, issued, game>>

\* lines 188-200: r2.send(PutObjectCommand), which may throw
ReportUpload(i, ok) ==
  LET h == handlers[i]
  IN /\ h.route = "impact-engine" /\ h.pc = "upload"
     /\ IF ok
        THEN /\ r2' = r2 \cup {r2Key(h.reportId)}
             /\ Becomes(i, [h EXCEPT !.pc = "meta"])
        ELSE /\ r2' = r2
             /\ Becomes(i, Thrown(h, "r2.send failed"))
     /\ UNCHANGED <<engine, redis, issued, game>>

\* lines 203-210: redis.set(keyReport(reportId), meta), which may throw
ReportSetMeta(i, ok) ==
  LET h == handlers[i]
  IN /\ h.route = "impact-engine" /\ h.pc = "meta"
     /\ IF ok
        THEN /\ redis' = [redis EXCEPT !.reports = redis.reports \cup {h.reportId}]
             /\ Becomes(i, [h EXCEPT !.pc = "expire"])
        ELSE /\ redis' = redis
             /\ Becomes(i, Thrown(h, "redis.set failed"))
     /\ UNCHANGED <<engine, r2, issued, game>>

\* lines 211-223: redis.expire(keyReport(reportId), 8 days), which may
\* throw, and the answer 200 with the report id
ReportRespond(i, ok) ==
  LET h == handlers[i]
  IN /\ h.route = "impact-engine" /\ h.pc = "expire"
     /\ IF ok
        THEN /\ Becomes(i, Answered(h, 200, ""))
             /\ issued' = [issued EXCEPT !.answers = issued.answers \cup {h.reportId}]
        ELSE /\ Becomes(i, Thrown(h, "redis.expire failed"))
             /\ issued' = issued
     /\ UNCHANGED <<engine, stores, game>>

----------------------------------------------------------------------------
(* GET /api/reports/{reportId}. *)

\* lines 54-83: the metadata, then the object
reportsGET(store, bucket, reportId) ==
  IF reportId \notin store.reports
  THEN [status |-> 404, error |-> "Report not found"]
  ELSE IF r2Key(reportId) \notin bucket
  THEN [status |-> 500, error |-> "NoSuchKey"]
  ELSE [status |-> 200, error |-> ""]

\* lines 46-89: a download of the report reportId
ReportsGET(i, reportId) ==
  /\ handlers[i].pc \in {"idle", "done"}
  /\ Becomes(i, [route |-> "reports", pc |-> "done", reportId |-> reportId,
                 status |-> reportsGET(redis, r2, reportId).status,
                 error |-> reportsGET(redis, r2, reportId).error])
  /\ UNCHANGED <<engine, stores, issued, game>>

\* the report ids a client may ask for: those it was given in an answer, and
\* one that never was a report
KnownReportIds == issued.answers \cup {"uuid-0"}

NextReports ==
  \/ \E i \in Handlers, h \in ApiKeyHeaders : ReportRequest(i, h)
  \/ \E i \in Handlers : ReportGetKey(i)
  \/ \E i \in Handlers : ReportGetAcct(i)
  \/ \E i \in Handlers : ReportIncr(i)
  \/ \E i \in Handlers : ReportQuota(i)
  \/ \E i \in Handlers, ok \in BOOLEAN : ReportGenerate(i, ok)
  \/ \E i \in Handlers, ok \in BOOLEAN : ReportUpload(i, ok)
  \/ \E i \in Handlers, ok \in BOOLEAN : ReportSetMeta(i, ok)
  \/ \E i \in Handlers, ok \in BOOLEAN : ReportRespond(i, ok)
  \/ \E i \in Handlers, id \in KnownReportIds : ReportsGET(i, id)

SpecReports == Init /\ [][NextReports]_vars

----------------------------------------------------------------------------
(* Registration and key rotation: POST /api/register, POST
   /api/register/rotate and their confirm routes, as concurrent handlers with
   one step per Redis command the handler awaits. *)

\* the addresses that register, and the tokens and keys crypto.randomBytes gives
Emails == {"alice@example.org", "bob@example.org"}
MaxTokens == 2
newToken(iss) == "tok-" \o ToString(Cardinality(iss.tokens) + 1)
generateApiKey(iss) == "as_" \o ToString(Cardinality(iss.apiKeys) + 1)

\* register route, line 113
DAILY_REPORT_LIMIT == 20

\* redis.get of a pending token: the email, "null" when it is not there
redisGetPending(store, key) ==
  IF key \in DOMAIN store.pending THEN store.pending[key] ELSE "null"

\* redis.get of an account record: apiKeyHash "" when there is none
redisGetAcct(store, email) ==
  IF keyAcct(email) \in DOMAIN store.acct THEN store.acct[keyAcct(email)]
  ELSE [apiKeyHash |-> "", dailyReportLimit |-> 0]

\* redis.set and redis.del on a map of the store
redisSet(map, key, value) == (key :> value) @@ map
redisDel(map, key) == [k \in DOMAIN map \ {key} |-> map[k]]

\* register route, lines 76-100: the hash of a new token is stored under
\* pending: with the address, and the token is mailed
POSTRegister(email) ==
  /\ Cardinality(issued.tokens) < MaxTokens
  /\ redis' = [redis EXCEPT !.pending =
                 redisSet(redis.pending, keyPending(sha256Hex(newToken(issued))), email)]
  /\ issued' = [issued EXCEPT !.tokens = issued.tokens \cup
                  {[kind |-> "register", token |-> newToken(issued), email |-> email]}]
  /\ UNCHANGED <<engine, r2, handlers, game>>

\* rotate route, lines 62-94: only for an address that has a key
POSTRotate(email) ==
  /\ Cardinality(issued.tokens) < MaxTokens
  /\ redisGetAcct(redis, email).apiKeyHash # ""
  /\ redis' = [redis EXCEPT !.pending =
                 redisSet(redis.pending, keyRotatePending(sha256Hex(newToken(issued))),
                          email)]
  /\ issued' = [issued EXCEPT !.tokens = issued.tokens \cup
                  {[kind |-> "rotate", token |-> newToken(issued), email |-> email]}]
  /\ UNCHANGED <<engine, r2, handlers, game>>

\* the TTL of a pending token (30 minutes) runs out
PendingExpires(key) ==
  /\ key \in DOMAIN redis.pending
  /\ redis' = [redis EXCEPT !.pending = redisDel(redis.pending, key)]
  /\ UNCHANGED <<engine, r2, handlers, issued, game>>

\* the tokens a client may send: those that were mailed, and one that never was
KnownTokens == {t.token : t \in issued.tokens} \cup {"tok-0"}

\* the key under which a confirm route looks its token up
pendingKey(route, token) ==
  IF route = "register/confirm" THEN keyPending(sha256Hex(token))
  ELSE keyRotatePending(sha256Hex(token))

\* confirm line 155 and rotate/confirm line 42: redis.get of the token
confirmLookup(store, route, token) ==
  [email |-> redisGetPending(store, pendingKey(route, token)),
   pending |-> store.pending]

\* confirm lines 146-158 and rotate/confirm lines 33-45: a confirm request
\* arrives and looks its token up
ConfirmRequest(i, route, token) ==
  LET found == confirmLookup(redis, route, token)
      h == [route |-> route, pc |-> "del", token |-> token, email |-> found.email,
            acct |-> [apiKeyHash |-> "", dailyReportLimit |-> 0], apiKey |-> "",
            oldHash |-> "", status |-> 0, error |-> ""]
  IN /\ handlers[i].pc \in {"idle", "done"}
     /\ redis' = [redis EXCEPT !.pending = found.pending]
     /\ Becomes(i, IF found.email = "null" \/ found.email = ""
                   THEN Answered(h, 400, "Invalid or expired token")
                   ELSE h)
     /\ UNCHANGED <<engine, r2, issued, game>>

\* confirm line 161 and rotate/confirm line 48: redis.del of the token
ConfirmDel(i) ==
  LET h == handlers[i]
  IN /\ h.route \in {"register/confirm", "rotate/confirm"} /\ h.pc = "del"
     /\ redis' = [redis EXCEPT !.pending =
                    redisDel(redis.pending, pendingKey(h.route, h.token))]
     /\ Becomes(i, [h EXCEPT !.pc = "acct"])
     /\ UNCHANGED <<engine, r2, issued, game>>

\* confirm lines 163-183: the account record is read; with a key in it the
\* answer is 409, without one a key is generated
RegisterGetAcct(i) ==
  LET h == handlers[i]
      existing == redisGetAcct(redis, h.email)
  IN /\ h.route = "register/confirm" /\ h.pc = "acct"
     /\ IF existing.apiKeyHash # ""
        THEN /\ Becomes(i, Answered(h, 409, "already_provisioned"))
             /\ issued' = issued
        ELSE /\ Becomes(i, [h EXCEPT !.pc = "setAcct", !.apiKey = generateApiKey(issued),
                                     !.acct = [apiKeyHash |-> sha256Hex(generateApiKey(issued)),
                                               dailyReportLimit |-> DAILY_REPORT_LIMIT]])
             /\ issued' = [issued EXCEPT !.apiKeys =
                             issued.apiKeys \cup {generateApiKey(issued)}]
     /\ UNCHANGED <<engine, stores, game>>

\* rotate/confirm lines 50-65: the account record is read; without a key in
\* it the answer is 404, with one a new key is generated and the record that
\* was read is copied with the new hash
RotateGetAcct(i) ==
  LET h == handlers[i]
      acct == redisGetAcct(redis, h.email)
  IN /\ h.route = "rotate/confirm" /\ h.pc = "acct"
     /\ IF acct.apiKeyHash = ""
        THEN /\ Becomes(i, Answered(h, 404, "Account not found"))
             /\ issued' = issued
        ELSE /\ Becomes(i, [h EXCEPT !.pc = "setAcct", !.apiKey = generateApiKey(issued),
                                     !.oldHash = acct.apiKeyHash,
                                     !.acct = [acct EXCEPT !.apiKeyHash =
                                                 sha256Hex(generateApiKey(issued))]])
             /\ issued' = [issued EXCEPT !.apiKeys =
                             issued.apiKeys \cup {generateApiKey(issued)}]
     /\ UNCHANGED <<engine, stores, game>>

\* confirm line 186 and rotate/confirm line 67: redis.set(keyAcct(email), ...)
ConfirmSetAcct(i) ==
  LET h == handlers[i]
  IN /\ h.route \in {"register/confirm", "rotate/confirm"} /\ h.pc = "setAcct"
     /\ redis' = [redis EXCEPT !.acct = redisSet(redis.acct, keyAcct(h.email), h.acct)]
     /\ Becomes(i, [h EXCEPT !.pc = "setKey"])
     /\ UNCHANGED <<engine, r2, issued, game>>

\* what leaves with the answer 200 of a confirm route: the raw key, once
KeyReturned(h) == [token |-> h.token, apiKey |-> h.apiKey, email |-> h.email]

\* confirm lines 187-190: redis.set(keyKey(apiKeyHash), email) and the
\* answer 200 with the key; rotate/confirm line 70: the same set
ConfirmSetKey(i) ==
  LET h == handlers[i]
  IN /\ h.route \in {"register/confirm", "rotate/confirm"} /\ h.pc = "setKey"
     /\ redis' = [redis EXCEPT !.kv =
                    redisSet(redis.kv, keyKey(h.acct.apiKeyHash), h.email)]
     /\ IF h.route = "register/confirm"
        THEN /\ Becomes(i, Answered(h, 200, ""))
             /\ issued' = [issued EXCEPT !.keys = issued.keys \cup {KeyReturned(h)}]
        ELSE /\ Becomes(i, [h EXCEPT !.pc = "delOld"])
             /\ issued' = issued
     /\ UNCHANGED <<engine, r2, game>>

\* rotate/confirm lines 73-78: redis.del(keyKey(oldHash)) and the answer 200
\* with the new key
RotateDelOld(i) ==
  LET h == handlers[i]
  IN /\ h.route = "rotate/confirm" /\ h.pc = "delOld"
     /\ redis' = [redis EXCEPT !.kv = redisDel(redis.kv, keyKey(h.oldHash))]
     /\ Becomes(i, Answered(h, 200, ""))
     /\ issued' = [issued EXCEPT !.keys = issued.keys \cup {KeyReturned(h)}]
     /\ UNCHANGED <<engine, r2, game>>

\* two confirm requests in flight at a time are enough for every interleaving
\* of two handlers
MaxConfirms == 2
ConfirmHandlers == {i \in Handlers : i <= MaxConfirms}

NextAccounts ==
  \/ \E email \in Emails : POSTRegister(email)
  \/ \E email \in Emails : POSTRotate(email)
  \/ \E key \in DOMAIN redis.pending : PendingExpires(key)
  \/ \E i \in ConfirmHandlers, route \in {"register/confirm", "rotate/confirm"},
        token \in KnownTokens : ConfirmRequest(i, route, token)
  \/ \E i \in ConfirmHandlers : ConfirmDel(i)
  \/ \E i \in ConfirmHandlers : RegisterGetAcct(i)
  \/ \E i \in ConfirmHandlers : RotateGetAcct(i)
  \/ \E i \in ConfirmHandlers : ConfirmSetAcct(i)
  \/ \E i \in ConfirmHandlers : ConfirmSetKey(i)
  \/ \E i \in ConfirmHandlers : RotateDelOld(i)

SpecAccounts == Init /\ [][NextAccounts]_vars

----------------------------------------------------------------------------
(* The asteroid-defense page: its timers and the player's buttons, one action
   per callback. What gameUtils computes (the time to impact of a generated
   asteroid, how far updateAsteroid moves it, whether a mission is deployed)
   and Math.random are choices. *)

\* constants.ts lines 42-49, in hundredths of a billion
ACTION_COSTS ==
  [trackAsteroid |-> 10, alertPublic |-> 5, launchKineticMission |-> 200,
   launchNuclearMission |-> 500, launchGravityTractor |-> 300, evacuateArea |-> 100]

\* lines 51-57
TRUST_IMPACTS ==
  [correctAlert |-> 10, falseAlarm |-> -20, missedThreat |-> -50,
   successfulDeflection |-> 30, failedMission |-> -15]

\* line 100
trackingCapacity == 5

\* how much of the game is explored: seconds of game timer, asteroids ever
\* generated and asteroids at a time, buttons pressed, the entries of the event log that are kept
\* (100 in line 126), and the budget up to which the allocation is taken (50 billion)
MaxTime == 2
MaxGenerated == 4
MaxAsteroids == 3
MaxPresses == 3
LogKept == 1
MaxBudget == 5000

\* lines 395-397
isGameOver(g) == g.trustPoints <= 0 \/ g.budget <= 0

\* lines 115-127: one more entry, the newest ones kept
addEvent(log, type) == IMin(log + 1, LogKept)

\* what generateAsteroid returns as far as the page reads it: timeToImpact is
\* "ahead" (timeToImpactHours above 0) or "passed" (0 or less)
generateAsteroid(id) ==
  [id |-> id, timeToImpact |-> "ahead", isTracked |-> FALSE,
   publicAlerted |-> FALSE, evacuationOrdered |-> FALSE, deflectionMissions |-> 0]

\* lines 132-147: the first render generates three asteroids
InitAsteroids ==
  /\ ~game.isClientInitialized
  /\ game.generated + 3 <= MaxGenerated
  /\ game' = [game EXCEPT
                  !.asteroids = [i \in 1..3 |-> generateAsteroid(game.generated + i)],
                  !.generated = game.generated + 3,
                  !.isClientInitialized = TRUE]
  /\ UNCHANGED <<engine, stores, handlers, issued>>

\* lines 150-169: every two seconds, with probability 0.4, one more asteroid
SpawnAsteroid ==
  /\ game.isPlaying /\ game.isClientInitialized
  /\ game.generated < MaxGenerated
  /\ Len(game.asteroids) < MaxAsteroids
  /\ game' = [game EXCEPT
                  !.asteroids = Append(game.asteroids, generateAsteroid(game.generated + 1)),
                  !.generated = game.generated + 1,
                  !.eventLog = addEvent(game.eventLog, "detection")]
  /\ UNCHANGED <<engine, stores, handlers, issued>>

\* line 179
replenish(g) == IMin(g.budget + Billions(5), Billions(100))

\* lines 172-184: every thirty seconds while the game is playing
BudgetReplenishment ==
  /\ game.isPlaying
  /\ game.budget + Billions(5) <= MaxBudget
  /\ game' = [game EXCEPT !.budget = replenish(game),
                          !.eventLog = addEvent(game.eventLog, "system")]
  /\ UNCHANGED <<engine, stores, handlers, issued>>

\* what one second does to an asteroid: it stays ahead, crosses (and hits,
\* misses, or misses with a mission deployed), or is gone 24 hours after it
\* has crossed
Outcomes(a) ==
  IF a.timeToImpact = "passed" THEN {"passed", "gone"}
  ELSE {"ahead", "hit", "miss"}
         \cup (IF a.deflectionMissions > 0 THEN {"deflected"} ELSE {})

\* lines 198 and 247: the asteroid as updateAsteroid returns it
updateAsteroid(a, outcome) ==
  [a EXCEPT !.timeToImpact = IF outcome = "ahead" THEN "ahead" ELSE "passed"]

\* line 212: the trust after an impact
impactTrust(trust, publicAlerted) ==
  IMax(0, trust + (IF publicAlerted THEN TRUST_IMPACTS.correctAlert
                   ELSE TRUST_IMPACTS.missedThreat))

\* lines 203-244: what the crossing of one asteroid does to trust, false
\* alarms and event log
crossing(g, a, outcome) ==
  IF outcome = "hit"
  THEN [g EXCEPT !.trustPoints = impactTrust(g.trustPoints, a.publicAlerted),
                 !.eventLog = addEvent(addEvent(g.eventLog, "impact"), "system")]
  ELSE LET log1 == addEvent(g.eventLog, "miss")
           g1 == IF a.publicAlerted
                 THEN [g EXCEPT !.trustPoints = IMax(0, g.trustPoints + TRUST_IMPACTS.falseAlarm),
                                !.falseAlarms = g.falseAlarms + 1,
                                !.eventLog = addEvent(log1, "system")]
                 ELSE [g EXCEPT !.eventLog = log1]
       IN IF a.deflectionMissions > 0 /\ outcome = "deflected"
          THEN [g1 EXCEPT !.trustPoints =
                            IMin(100, g1.trustPoints + TRUST_IMPACTS.successfulDeflection),
                          !.eventLog = addEvent(g1.eventLog, "mission")]
          ELSE g1

\* lines 197-247: the asteroids one after the other
RECURSIVE advance(_, _, _, _)
advance(g, asts, outcome, i) ==
  IF i > Len(asts) THEN g
  ELSE LET a == asts[i]
           g1 == IF outcome[i] \in {"hit", "miss", "deflected"}
                 THEN crossing(g, a, outcome[i]) ELSE g
           g2 == IF outcome[i] = "gone" THEN g1
                 ELSE [g1 EXCEPT !.asteroids = Append(g1.asteroids,
                                                     updateAsteroid(a, outcome[i]))]
       IN advance(g2, asts, outcome, i + 1)

\* line 188: the timer runs while the game is playing
tickRuns(g) == g.isPlaying

\* lines 187-253: every second the game time advances and every asteroid is
\* updated
GameTimeAdvancement ==
  /\ tickRuns(game)
  /\ game.currentTime < MaxTime
  /\ \E outcome \in [1..Len(game.asteroids) ->
                       {"ahead", "hit", "miss", "deflected", "passed", "gone"}] :
       /\ \A i \in 1..Len(game.asteroids) : outcome[i] \in Outcomes(game.asteroids[i])
       /\ game' = advance([game EXCEPT !.currentTime = game.currentTime + 1,
                                       !.asteroids = <<>>],
                          game.asteroids, outcome, 1)
  /\ UNCHANGED <<engine, stores, handlers, issued>>

\* the asteroid with the id, as asteroids.find gives it
Found(g, id) == {i \in 1..Len(g.asteroids) : g.asteroids[i].id = id}

\* lines 508 and 643: an asteroid of the list is clicked
SelectAsteroid(id) ==
  /\ ~isGameOver(game)
  /\ Found(game, id) # {}
  /\ game.selectedAsteroid # id
  /\ game' = [game EXCEPT !.selectedAsteroid = id]
  /\ UNCHANGED <<engine, stores, handlers, issued>>

\* the selected asteroid after a button has changed it
WithSelected(g, field, value) ==
  [i \in 1..Len(g.asteroids) |->
     IF g.asteroids[i].id = g.selectedAsteroid
     THEN [g.asteroids[i] EXCEPT ![field] = value]
     ELSE g.asteroids[i]]

\* lines 261-286 and 549: Track
trackAsteroid ==
  /\ ~isGameOver(game)
  /\ game.presses < MaxPresses
  /\ \E i \in Found(game, game.selectedAsteroid) :
       /\ ~game.asteroids[i].isTracked
       /\ game.budget >= ACTION_COSTS.trackAsteroid
       /\ IF Cardinality({j \in 1..Len(game.asteroids) : game.asteroids[j].isTracked})
               >= trackingCapacity
          THEN game' = [game EXCEPT !.presses = game.presses + 1,
                               !.eventLog = addEvent(game.eventLog, "system")]
          ELSE game' = [game EXCEPT !.presses = game.presses + 1,
                          !.asteroids = WithSelected(game, "isTracked", TRUE),
                          !.budget = game.budget - ACTION_COSTS.trackAsteroid,
                          !.eventLog = addEvent(game.eventLog, "tracking")]
  /\ UNCHANGED <<engine, stores, handlers, issued>>

\* lines 288-309 and 550: Alert
alertPublic ==
  /\ ~isGameOver(game)
  /\ game.presses < MaxPresses
  /\ \E i \in Found(game, game.selectedAsteroid) :
       /\ ~game.asteroids[i].publicAlerted
       /\ game.budget >= ACTION_COSTS.alertPublic
       /\ game' = [game EXCEPT !.presses = game.presses + 1,
                     !.asteroids = WithSelected(game, "publicAlerted", TRUE),
                     !.budget = game.budget - ACTION_COSTS.alertPublic,
                     !.eventLog = addEvent(game.eventLog, "alert")]
  /\ UNCHANGED <<engine, stores, handlers, issued>>

\* lines 311-330 and 552: Evacuate
evacuateArea ==
  /\ ~isGameOver(game)
  /\ game.presses < MaxPresses
  /\ \E i \in Found(game, game.selectedAsteroid) :
       /\ ~game.asteroids[i].evacuationOrdered
       /\ game.budget >= ACTION_COSTS.evacuateArea
       /\ game' = [game EXCEPT !.presses = game.presses + 1,
                     !.asteroids = WithSelected(game, "evacuationOrdered", TRUE),
                     !.budget = game.budget - ACTION_COSTS.evacuateArea,
                     !.eventLog = addEvent(game.eventLog, "system")]
  /\ UNCHANGED <<engine, stores, handlers, issued>>

\* lines 336-340
costs ==
  [kinetic |-> ACTION_COSTS.launchKineticMission,
   nuclear |-> ACTION_COSTS.launchNuclearMission,
   gravity_tractor |-> ACTION_COSTS.launchGravityTractor]

\* lines 332-380 and 551: a mission is launched at an asteroid that is still
\* ahead (the button also wants more than 30 days and an impact probability
\* above 0.1, both of which gameUtils decides)
launchDeflectionMission(missionType) ==
  /\ ~isGameOver(game)
  /\ game.presses < MaxPresses
  /\ \E i \in Found(game, game.selectedAsteroid) :
       /\ game.asteroids[i].timeToImpact = "ahead"
       /\ IF game.budget < costs[missionType]
          THEN game' = [game EXCEPT !.presses = game.presses + 1,
                               !.eventLog = addEvent(game.eventLog, "system")]
          ELSE game' = [game EXCEPT !.presses = game.presses + 1,
                          !.asteroids = WithSelected(game, "deflectionMissions",
                                          game.asteroids[i].deflectionMissions + 1),
                          !.budget = game.budget - costs[missionType],
                          !.eventLog = addEvent(game.eventLog, "mission")]
  /\ UNCHANGED <<engine, stores, handlers, issued>>

\* line 468: Pause and Play, disabled when the game is over
TogglePlaying ==
  /\ ~isGameOver(game)
  /\ game.presses < MaxPresses
  /\ game' = [game EXCEPT !.presses = game.presses + 1, !.isPlaying = ~game.isPlaying]
  /\ UNCHANGED <<engine, stores, handlers, issued>>

\* lines 781-801: Restart Mission, on the modal of a game that is over; the
\* log is emptied and then given the entry of the reactivation
RestartMission ==
  /\ isGameOver(game)
  /\ game' = [GAME_INIT EXCEPT !.generated = game.generated,
                               !.presses = game.presses,
                               !.eventLog = addEvent(0, "system")]
  /\ UNCHANGED <<engine, stores, handlers, issued>>

NextGame ==
  \/ InitAsteroids
  \/ SpawnAsteroid
  \/ BudgetReplenishment
  \/ GameTimeAdvancement
  \/ \E id \in 1..MaxGenerated : SelectAsteroid(id)
  \/ trackAsteroid
  \/ alertPublic
  \/ evacuateArea
  \/ \E missionType \in {"kinetic", "nuclear", "gravity_tractor"} :
       launchDeflectionMission(missionType)
  \/ TogglePlaying
  \/ RestartMission

SpecGame == Init /\ [][NextGame]_vars

----------------------------------------------------------------------------
(* Properties. pc = "loop" holds exactly while a findRadiusForOverpressure
   frame is live; results holds a DamageResults once the function returned. *)

\* the six numeric fields of the crater profile of a result
CraterFields(r) ==
  {r.Dtc_m, r.dtc_m, r.Dfr_m, r.dfr_m, r.Vtc_km3, r.Vtc_over_Ve}

\* C1: in every result, airburst is true if and only if the six crater
\* fields, the seismic magnitude and the seismic radius are all null; in a
\* result that is no airburst no crater field and not the magnitude is null.
C1_AirburstCraterExclusion ==
  results # NoResults =>
    /\ results.airburst <=>
         \A x \in CraterFields(results)
                    \cup {results.Magnitude, results.radius_M_ge_7_5_m} :
           x.k = "null"
    /\ ~results.airburst =>
         \A x \in CraterFields(results) \cup {results.Magnitude} : x.k # "null"

\* an airburst has been returned, with its crater and earthquake left null
C1_Witness ==
  /\ results # NoResults
  /\ results.airburst
  /\ results.Dtc_m = Null
  /\ results.Magnitude = Null

\* C2: airburst is (breakup and burst altitude > 0), breakup is (If < 1), the
\* burst altitude is never negative, and whenever airburst is false the burst
\* altitude that the blast model receives is 0.
C2_AirburstDefinition ==
  pc = "loop" =>
    /\ loc.breakup <=> Lt(loc.If, One)
    /\ loc.airburst <=> (loc.breakup /\ Gt(loc.zb, Zero))
    /\ ~Lt(loc.zb, Zero)
    /\ ~loc.airburst => (loc.zb.k = "zero" /\ frame.zb_m.k = "zero")

\* the documented ranges: 0 < angle <= 90 and positive numbers for the rest
InRange(mass, diameter, density, speed, angle) ==
  /\ Gt(angle, Zero) /\ Le(angle, Dec(90, 0))
  /\ \A x \in {mass, diameter, density, speed} : isFinite(x) /\ Gt(x, Zero)

\* whether a complete request carries a number outside its documented range
InvalidInput(b) ==
  /\ b.meteorData /\ b.impactLocation
  /\ \A i \in 1..Len(requiredMeteorFields) : ~IsNullish(b[requiredMeteorFields[i]])
  /\ ~InRange(b.mass, b.diameter, b.density, b.speed, b.angle)

\* whether the numbers of a DamageInputs are all inside their documented range
ValidInput(i) == InRange(i.mass, i.L0, i.rho_i, i.v0, i.theta_deg)

\* C3: a request with an angle <= 0 or > 90, or with a mass, diameter, density
\* or velocity that is no positive number, is answered with a validation
\* failure and the physics engine is never called for it.
C3_InvalidInputRejected ==
  (caller = "POST" /\ InvalidInput(body)) =>
    /\ "computeImpactEffects" \notin effects
    /\ pc = "responded"
    /\ response.status = 400

\* whether the request lacks meteorData, impactLocation or a required field
MissingPart(b) ==
  \/ ~b.meteorData
  \/ ~b.impactLocation
  \/ \E i \in 1..Len(requiredMeteorFields) : IsNullish(b[requiredMeteorFields[i]])

\* the position of the first required field that is undefined or null
FirstMissing(b) ==
  CHOOSE i \in 1..Len(requiredMeteorFields) :
    /\ IsNullish(b[requiredMeteorFields[i]])
    /\ \A j \in 1..(i - 1) : ~IsNullish(b[requiredMeteorFields[j]])

\* the error text the documentation gives for an incomplete request
MissingError(b) ==
  IF ~b.meteorData \/ ~b.impactLocation
  THEN "Missing meteorData or impactLocation"
  ELSE "Missing meteoroid parameter: " \o requiredMeteorFields[FirstMissing(b)]

\* C4: a request without meteorData or impactLocation, or with a required
\* field undefined or null, is answered 400 with the error that names the
\* first missing field, and no collaborator (water lookup, physics,
\* mortality estimate, Redis, storage) is invoked for it.
C4_MissingFieldRejected ==
  (caller = "POST" /\ MissingPart(body)) =>
    /\ pc = "responded"
    /\ response = [status |-> 400, error |-> MissingError(body)]
    /\ effects = {}

\* a request with two missing fields has been answered: speed comes first
C4_Witness ==
  /\ caller = "POST"
  /\ pc = "responded"
  /\ body.meteorData /\ body.impactLocation
  /\ IsNullish(body.speed) /\ IsNullish(body.density)
  /\ response = [status |-> 400, error |-> "Missing meteoroid parameter: speed"]

Width(f) == Div(RToNum(RSub(f.hi, f.lo)), Math_max(One, RToNum(f.lo)))

\* the radius a returning findRadiusForOverpressure hands to its caller
Delivered ==
  CASE frame.name = "building" -> loc'.r_building
    [] frame.name = "glass" -> loc'.r_glass
    [] OTHER -> loc'.r_ionization

\* C6: the bisection loop never passes 200 iterations; it makes another
\* iteration only while fewer than 200 are done and the relative width
\* exceeds 1e-6, and when it stops the midpoint of the last bracket is
\* returned.
C6_BisectionBounded ==
  [][ (pc = "loop" /\ frame.looping) =>
        /\ frame.i <= maxIter
        /\ pc' = "loop" =>
             /\ frame'.i = frame.i + 1
             /\ frame.i < maxIter
             /\ Gt(Width(frame), tol)
        /\ pc' # "loop" =>
             /\ frame.i = maxIter \/ ~Gt(Width(frame), tol)
             /\ Delivered = RToNum(RMid(frame.lo, frame.hi)) ]_vars

\* a bisection that has iterated and whose bracket is now narrow enough
C6_Witness ==
  /\ pc = "loop"
  /\ frame.looping
  /\ frame.i > 0
  /\ Le(Width(frame), tol)

\* the overpressure at radius r for the energy and burst altitude of frame f
PAt(r, f) == peakOverpressureAtR(r, f.E_Mt, f.zb_m)

\* C7: a target at or above the pressure at r_min returns r_min, a target at
\* or below the pressure at r_max returns r_max, which is half of Earth's
\* circumference; in both cases without any bisection iteration.
C7_ClampsOutsideBracket ==
  [][ (pc = "loop" /\ frame.i = 0) =>
        /\ Ge(frame.targetP, PAt(frame.r_min, frame)) =>
             (pc' # "loop" /\ Delivered = frame.r_min)
        /\ Le(frame.targetP, PAt(frame.r_max, frame)) =>
             /\ pc' # "loop"
             /\ Delivered = frame.r_max
             /\ frame.r_max = Dec(2003750834, -2) ]_vars

\* a call whose target is not above the pressure at r_max has been entered
C7_Witness ==
  /\ pc = "loop"
  /\ frame.i = 0
  /\ ~frame.looping
  /\ Le(frame.targetP, PAt(frame.r_max, frame))

\* |p - P| / P
RelErr(p, P) ==
  Div(IF Lt(p, P) THEN Sub(P, p) ELSE Sub(p, P), P)

\* findRadiusForOverpressure is about to return
AboutToReturn == pc = "loop" /\ ~(frame.looping /\ LoopCond(frame))

\* the target lies strictly inside the pressure range of the bracket
StrictlyInside(f) ==
  /\ Lt(PAt(f.r_max, f), f.targetP)
  /\ Lt(f.targetP, PAt(f.r_min, f))

C9_IonizationAtLeast50km ==
  (results # NoResults /\ ValidInput(inputs)) =>
    /\ Ge(results.ionization_radius, Dec(50000, 0))
    /\ Le(results.ionization_radius, HALF_CIRCUMFERENCE_M)

\* C9 as amended: the ionization radius is at least 50,000 m in every result
\* that is no airburst, at least 1e-6 m in an airburst, and never more than
\* half of Earth's circumference.
C9_IonizationBracket ==
  results # NoResults =>
    /\ ~results.airburst => Ge(results.ionization_radius, Dec(50000, 0))
    /\ results.airburst => Ge(results.ionization_radius, Dec(1, -6))
    /\ Le(results.ionization_radius, HALF_CIRCUMFERENCE_M)

\* a surface impact whose ionization radius is the lower end of the bracket
C9_Witness ==
  /\ results # NoResults
  /\ ~results.airburst
  /\ results.ionization_radius = Dec(50000, 0)

\* C10: when a qualitative description is reported, its milestone is the
\* highest key of the table that is <= M: the key is <= M and no key of the
\* table lies above it and at or below M; it fails even for inputs that are
\* all inside their documented range.
C10_HighestMilestone ==
  (pc = "loop" /\ ValidInput(inputs) /\ ~loc.airburst /\ loc.regime = 0) =>
    /\ loc.earthquake_description = massive_Earthquake_milestones(loc.floor)
    /\ Le(Dec(loc.floor, -2), loc.Magnitude)
    /\ \A i \in 1..Len(MilestoneKeys) :
         ~(loc.floor < MilestoneKeys[i] /\ Le(Dec(MilestoneKeys[i], -2), loc.Magnitude))

\* the radius in km that regime n solves for magnitude M (threshold 7.5)
RegimeRadius(n, M) ==
  CASE n = 1 -> Div(Sub(M, Dec(75, -1)), Dec(238, -4))
    [] n = 2 -> Div(Sub(Sub(M, Dec(11644, -4)), Dec(75, -1)), Dec(48, -4))
    [] OTHER -> Pow10(Div(Sub(Sub(M, Dec(6399, -3)), Dec(75, -1)), Dec(166, -2)))

\* whether radius r (km) lies in the validity range of regime n
RegimeAccepts(n, r) ==
  CASE n = 1 -> Ge(r, Zero) /\ Le(r, Dec(60, 0))
    [] n = 2 -> Ge(r, Dec(60, 0)) /\ Le(r, Dec(700, 0))
    [] OTHER -> Gt(r, Dec(700, 0))

\* C11: the seismic radius comes from the first of the three regimes, tried
\* in the order 1, 2, 3, whose solved radius lies in its validity range
\* ([0, 60] km, [60, 700] km, above 700 km); the reported radius is the one
\* that regime solved and lies in its range, no radius is reported when no
\* regime accepts, and the radius in metres is 1000 times the one in km.
C11_SeismicRegimes ==
  (pc = "loop" /\ ~loc.airburst) =>
    /\ \A n \in 1..3 :
         loc.regime = n <=>
           /\ RegimeAccepts(n, RegimeRadius(n, loc.Magnitude))
           /\ \A k \in 1..(n - 1) : ~RegimeAccepts(k, RegimeRadius(k, loc.Magnitude))
    /\ loc.regime \in 1..3 =>
         /\ loc.radius_km = RegimeRadius(loc.regime, loc.Magnitude)
         /\ RegimeAccepts(loc.regime, loc.radius_km)
         /\ loc.radius_m = Mul(loc.radius_km, Dec(1000, 0))
    /\ loc.regime = 0 => (loc.radius_km = Null /\ loc.radius_m = Null)

\* the second regime produced the radius after the first one was rejected
\* for a radius above 60 km
C11_Witness ==
  /\ pc = "loop"
  /\ ~loc.airburst
  /\ loc.regime = 2
  /\ Gt(RegimeRadius(1, loc.Magnitude), Dec(60, 0))
  /\ Ge(loc.radius_km, Dec(60, 0))

\* the final diameter and depth that the simple-crater formulas give
SimpleFinal(Dtc, dtc) == [Dfr |-> Mul(Dec(125, -2), Dtc), dfr |-> dtc]

\* the final diameter that the complex-crater formula gives
ComplexDfr(Dtc) ==
  Div(Mul(Dec(117, -2), Math_pow(Dtc, 113, 100)), Math_pow(Dec(3200, 0), 13, 100))

\* the final diameter and depth that the complex-crater formulas give
ComplexFinal(Dtc) ==
  [Dfr |-> ComplexDfr(Dtc),
   dfr |-> Mul(Dec(1000, 0),
               Mul(Dec(294, -3),
                   Math_pow(Div(ComplexDfr(Dtc), Dec(1000, 0)), 301, 1000)))]

\* the transient diameter is within 0.2 % of the regime boundary of 3200 m
AtRegimeBoundary(Dtc) ==
  Ge(Dtc, Dec(31936, -1)) /\ Le(Dtc, Dec(32064, -1))

\* C12: at the regime boundary Dtc = 3200 m the simple-crater and the
\* complex-crater formulas give nearly the same final diameter and nearly
\* the same final depth (here: within 10 % of each other), so the reported
\* Dfr and dfr do not jump when Dtc crosses 3200 m.
C12_RegimeContinuity ==
  (pc = "loop" /\ ~loc.airburst /\ ValidInput(inputs) /\ AtRegimeBoundary(loc.Dtc)) =>
    /\ Lt(RelErr(SimpleFinal(loc.Dtc, loc.dtc).Dfr, ComplexFinal(loc.Dtc).Dfr),
          Dec(1, -1))
    /\ Lt(RelErr(SimpleFinal(loc.Dtc, loc.dtc).dfr, ComplexFinal(loc.Dtc).dfr),
          Dec(1, -1))
    /\ loc.Dfr \in {SimpleFinal(loc.Dtc, loc.dtc).Dfr, ComplexFinal(loc.Dtc).Dfr}
    /\ loc.dfr \in {SimpleFinal(loc.Dtc, loc.dtc).dfr, ComplexFinal(loc.Dtc).dfr}

\* C13: in every result the fireball radius is at most Earth's radius, each
\* burn radius at most 1,500,000 m, each crater diameter and depth at most
\* Earth's diameter, the crater volume at most Earth's volume and the volume
\* ratio at most 1, however large the energy; it fails even for inputs that
\* are all inside their documented range.
C13_CapEnforcement ==
  (results # NoResults /\ ValidInput(inputs)) =>
    /\ Le(results.Rf_m, Dec(6371, 3))
    /\ \A r \in {results.r_clothing_m, results.r_2nd_burn_m, results.r_3rd_burn_m} :
         Le(r, Dec(15, 5))
    /\ ~results.airburst =>
         /\ \A d \in {results.Dtc_m, results.dtc_m, results.Dfr_m, results.dfr_m} :
              Le(d, Dec(12756, 3))
         /\ Le(results.Vtc_km3, Dec(1083, 9))
         /\ Le(results.Vtc_over_Ve, One)

\* the value a tunable has for a call: the caller's when supplied, else the
\* documented default
Tunable(inp, name) ==
  IF IsNullish(inp[name])
  THEN (CASE name = "K" -> Dec(3, -3) [] name = "Cd" -> Dec(2, 0)
          [] name = "rho0" -> One [] OTHER -> Dec(8000, 0))
  ELSE inp[name]

\* DEFAULTS with the tunables of a call in place of the defaults
WithTunables(inp, D) ==
  [D EXCEPT !.K = Tunable(inp, "K"), !.Cd = Tunable(inp, "Cd"),
            !.rho0 = Tunable(inp, "rho0"), !.H = Tunable(inp, "H")]

\* the burst altitude when every formula takes the tunables of the call
BurstAltitude(inp, T, z_star) ==
  pancakeAirburstAltitude(inp.L0, inp.rho_i, ThetaRad(inp.theta_deg), z_star,
                          T.H, T.fp, T.Cd, T)

\* C14: each of K, Cd, rho0 and H is the caller's value when supplied and
\* the default (3e-3, 2.0, 1.0, 8000) only when absent, and that value is
\* the one used by the drag attenuation, the breakup factor and altitude,
\* the pancake airburst altitude with its atmospheric density, and the burn
\* radii.
C14_TunablesUsed ==
  (pc = "loop" /\ caller = "direct") =>
    /\ loc.K = Tunable(inputs, "K")
    /\ loc.Cd = Tunable(inputs, "Cd")
    /\ loc.rho0 = Tunable(inputs, "rho0")
    /\ loc.H = Tunable(inputs, "H")
    /\ loc.burns = burnRadii(loc.E_Mt, loc.E_J, Tunable(inputs, "K"), DEFAULTS)
    /\ loc.v_i = intactSurfaceVelocity(inputs.v0, inputs.L0, inputs.rho_i,
                                       ThetaRad(inputs.theta_deg),
                                       Tunable(inputs, "Cd"), Tunable(inputs, "rho0"),
                                       Tunable(inputs, "H"))
    /\ loc.If = breakupIfAndZstar(inputs.L0, inputs.rho_i, inputs.v0,
                                  ThetaRad(inputs.theta_deg), Tunable(inputs, "Cd"),
                                  Tunable(inputs, "H"), Tunable(inputs, "rho0")).If
    /\ loc.breakup =>
         loc.zb = BurstAltitude(inputs, WithTunables(inputs, DEFAULTS), loc.z_star)

\* the numeric fields of a result
NumericFields(r) ==
  {r.E_J, r.E_Mt, r.Tre_years, r.m_kg, r.zb_breakup, r.v_impact_for_crater,
   r.Rf_m, r.r_clothing_m, r.r_2nd_burn_m, r.r_3rd_burn_m, r.Dtc_m, r.dtc_m,
   r.Dfr_m, r.dfr_m, r.Vtc_km3, r.Vtc_over_Ve, r.Magnitude, r.radius_M_ge_7_5_m,
   r.airblast_radius_building_collapse_m, r.airblast_radius_glass_shatter_m,
   r.overpressure_at_50_km, r.wind_speed_at_50_km, r.ionization_radius}

EarthEffectOf(ratio) ==
  IF Gt(ratio, Dec(5, -1)) THEN "destroyed"
  ELSE IF Ge(ratio, Dec(1, -1)) /\ Le(ratio, Dec(5, -1)) THEN "strongly_disturbed"
  ELSE "negligible_disturbed"

\* C16: the Earth_Effect of every result is the class of the volume ratio
\* reported in the same result (above 0.5 destroyed, from 0.1 to 0.5
\* strongly_disturbed, else negligible_disturbed), and it is
\* negligible_disturbed, with a null ratio, when the impact is an airburst.
C16_EarthEffectAgrees ==
  results # NoResults =>
    /\ results.earth_effect \in
         {"destroyed", "strongly_disturbed", "negligible_disturbed"}
    /\ results.airburst =>
         (results.earth_effect = "negligible_disturbed" /\ results.Vtc_over_Ve = Null)
    /\ ~results.airburst => results.earth_effect = EarthEffectOf(results.Vtc_over_Ve)

\* a result whose ratio lies between 0.1 and 0.5 has been returned
C16_Witness ==
  /\ results # NoResults
  /\ ~results.airburst
  /\ Ge(results.Vtc_over_Ve, Dec(1, -1)) /\ Le(results.Vtc_over_Ve, Dec(5, -1))
  /\ results.earth_effect = "strongly_disturbed"

\* C17: the building-collapse radius is the radius that the root-finder
\* returns for a peak overpressure of 42,600 Pa and the glass-shatter radius
\* the one it returns for 6,900 Pa, both for the energy and burst altitude of
\* the impact; the building-collapse radius is never the larger one.
C17_BlastThresholds ==
  /\ (pc = "loop" /\ frame.name = "building") =>
       /\ frame.targetP = Dec(42600, 0)
       /\ frame.E_Mt = loc.E_Mt /\ frame.zb_m = loc.zb
  /\ (pc = "loop" /\ frame.name = "glass") =>
       /\ frame.targetP = Dec(6900, 0)
       /\ frame.E_Mt = loc.E_Mt /\ frame.zb_m = loc.zb
  /\ (results # NoResults /\ ValidInput(inputs)) =>
       Le(results.airblast_radius_building_collapse_m,
          results.airblast_radius_glass_shatter_m)

\* concrete scenario 2: a stony sphere of 10 km at 20 km/s and 45 degrees
\* that hits land
Scenario2(inp) ==
  /\ inp.L0 = Dec(10000, 0) /\ inp.rho_i = Dec(3000, 0)
  /\ inp.mass = Dec(157079633, 7)
  /\ inp.v0 = Dec(20000, 0) /\ inp.theta_deg = Dec(45, 0)
  /\ ~inp.is_water

\* C19 as stated: the result of scenario 2 is no airburst, has a final
\* crater diameter between 100 km and 200 km, a seismic magnitude above 10
\* and the Earth effect negligible_disturbed.
C19_Scenario2 ==
  (results # NoResults /\ Scenario2(inputs)) =>
    /\ ~results.airburst
    /\ Ge(results.Dfr_m, Dec(100, 3)) /\ Le(results.Dfr_m, Dec(200, 3))
    /\ Gt(results.Magnitude, Dec(10, 0))
    /\ results.earth_effect = "negligible_disturbed"

\* C19 as amended: the same, with a seismic magnitude between 9.8 and 10.
C19_Scenario2Magnitude ==
  (results # NoResults /\ Scenario2(inputs)) =>
    /\ ~results.airburst
    /\ Ge(results.Dfr_m, Dec(100, 3)) /\ Le(results.Dfr_m, Dec(200, 3))
    /\ Gt(results.Magnitude, Dec(98, -1)) /\ Lt(results.Magnitude, Dec(10, 0))
    /\ results.earth_effect = "negligible_disturbed"

\* the request of scenario 2 has been answered with its result
C19_Witness ==
  /\ caller = "POST"
  /\ pc = "responded"
  /\ response.status = 200
  /\ results # NoResults
  /\ Scenario2(inputs)

\* the five fields of a Tsunami_Results
TsunamiFields(t) ==
  {t.rim_wave_height, t.tsunami_radius, t.max_tsunami_speed,
   t.time_to_reach_1_km, t.time_to_reach_100_km}

BadKey(b) ==
  \/ ~b.apiKey.present
  \/ b.apiKey.value = ""
  \/ keyKey(sha256Hex(b.apiKey.value)) \notin DOMAIN redis.kv

\* the collaborators of report generation that count, generate or store
ReportEffects == {"redis.incr", "generateReportAction", "r2.send", "redis.set"}

\* C20: a complete request to /api/impact-engine without generateReport is
\* answered 200 with the computed data, whatever its key, and nothing of the
\* report machinery is touched; a complete request with generateReport whose
\* key is missing or not in the key index is answered 401, and while it is
\* handled no quota counter changes, no PDF is generated or uploaded and no
\* report metadata is stored.
C20_ApiKeyForReportsOnly ==
  /\ [](caller = "POST" =>
         /\ (pc = "responded" /\ ~MissingPart(body) /\ ~body.generateReport) =>
              /\ response.status = 200
              /\ results # NoResults
              /\ effects \cap ({"redis.get"} \cup ReportEffects) = {}
         /\ (body.generateReport /\ BadKey(body)) =>
              /\ effects \cap ReportEffects = {}
              /\ (pc = "responded" /\ ~MissingPart(body)) => response.status = 401)
  /\ [][(caller' = "POST" /\ body'.generateReport /\ BadKey(body')) =>
          (redis' = redis /\ r2' = r2)]_vars

\* a request for a report with an unregistered key has been answered 401
\* after a report of the registered account was counted and stored
C20_Witness ==
  /\ caller = "POST"
  /\ pc = "responded"
  /\ body.generateReport
  /\ body.apiKey = Header(TRUE, "as_mallory")
  /\ response.status = 401
  /\ redis.usage = 1 /\ redis.reports # {} /\ r2 # {}

\* the model the claim gives a burst altitude: "none" when it gives none
ClaimedBranch(zb_m) ==
  CASE Le(zb_m, Zero) -> "surface"
    [] Gt(zb_m, Zero) /\ Le(zb_m, Dec(10000, 0)) -> "low"
    [] Gt(zb_m, Dec(10000, 0)) -> "high"
    [] OTHER -> "none"

\* the pressure of that model at the scaled distance r_1
ClaimedPressure(r_1, zb_m) ==
  CASE ClaimedBranch(zb_m) = "surface" ->
         calculateOverpressureEq54(Dec(290, 0), r_1)
    [] ClaimedBranch(zb_m) = "low" ->
         calculateOverpressureEq54(
           Add(Dec(289, 0), Div(Mul(Dec(65, -2), zb_m), Dec(50, 0))), r_1)
    [] ClaimedBranch(zb_m) = "high" ->
         Mul(Mul(Dec(314, 9), Math_pow(zb_m, -26, 10)),
             Math_exp(Mul(Neg(Mul(Dec(3487, -2), Math_pow(zb_m, -173, 100))), r_1)))
    [] OTHER -> Null

\* the scaled distance of radius r for the energy of frame f
ScaledDistance(r, f) == Div(r, Math_pow(Mul(f.E_Mt, Dec(1000, 0)), 1, 3))

\* the radii at which a live findRadiusForOverpressure asks for the pressure
ProbedRadii(f) ==
  {f.r_min, f.r_max} \cup (IF f.looping THEN {RToNum(RMid(f.lo, f.hi))} ELSE {})

\* C22: every burst altitude handed to peakOverpressureAtR selects exactly one
\* model: z_b <= 0 the scaled-distance formula with reference radius 290 m,
\* 0 < z_b <= 10000 (10000 included) the same formula with reference radius
\* 289 + 0.65*z_b/50, z_b > 10000 the exponential decay; and the surface
\* model is used if and only if the airburst flag is false.
C22_OverpressureModel ==
  (pc = "loop" /\ frame.how # "nan") =>
    /\ ClaimedBranch(frame.zb_m) # "none"
    /\ \A r \in ProbedRadii(frame) :
         PAt(r, frame) = ClaimedPressure(ScaledDistance(r, frame), frame.zb_m)
    /\ frame.zb_m = loc.zb
    /\ (OverpressureBranch(frame.zb_m) = "surface") <=> ~loc.airburst

\* whether the width w2 is half of the width w1, to the micrometre
RHalved(w1, w2) ==
  LET h == RMid(Rad(0, 0), w1)
  IN w2 = h \/ w2 = RCarry(h.M, h.u + 1)

\* r_min <= lo <= hi <= r_max and pressure(lo) >= target >= pressure(hi)
BracketHolds(f) ==
  /\ RLe(RFromNum(f.r_min), f.lo)
  /\ RLe(f.lo, f.hi)
  /\ RLe(f.hi, RFromNum(f.r_max))
  /\ Ge(PAt(RToNum(f.lo), f), f.targetP)
  /\ Ge(f.targetP, PAt(RToNum(f.hi), f))

\* the r_min the claim gives the two air-blast calls
ClaimedRMin(f) ==
  IF Le(f.zb_m, Zero) THEN loc.Rf_m ELSE Dec(1, -6)

\* C23: the bisection of findRadiusForOverpressure starts only when the
\* target lies strictly between the pressures at r_max and r_min; at loop
\* entry and after every iteration r_min <= lo <= hi <= r_max and
\* pressure(lo) >= target >= pressure(hi); every iteration halves hi - lo
\* (to the micrometre); the returned radius lies in [r_min, r_max]; and for
\* the air-blast calls r_min is the fireball radius for z_b <= 0 and 1e-6 m
\* for an airburst.
C23_BracketInvariant ==
  /\ [](pc = "loop" =>
          /\ frame.looping => (StrictlyInside(frame) /\ BracketHolds(frame))
          /\ (frame.how # "nan" /\ frame.name \in {"building", "glass"}) =>
               frame.r_min = ClaimedRMin(frame))
  /\ [][ (pc = "loop" /\ frame.how # "nan") =>
           /\ (frame.looping /\ pc' = "loop") =>
                RHalved(RSub(frame.hi, frame.lo), RSub(frame'.hi, frame'.lo))
           /\ pc' # "loop" =>
                (Ge(Delivered, frame.r_min) /\ Le(Delivered, frame.r_max)) ]_vars

\* the texts of the milestone table
MilestoneTexts ==
  { massive_Earthquake_milestones(MilestoneKeys[n]) : n \in DOMAIN MilestoneKeys }

\* C24: in every result that is no airburst exactly one of the two holds:
\* the seismic radius is not null and the description is undefined, or the
\* seismic radius is null and the description is a non-empty text of the
\* milestone table; in every airburst the radius is null and the description
\* is undefined.
C24_DescriptionWithoutRadius ==
  results # NoResults =>
    IF results.airburst
    THEN /\ results.radius_M_ge_7_5_m.k = "null"
         /\ results.earthquake_description = "undefined"
    ELSE (/\ results.radius_M_ge_7_5_m.k # "null"
          /\ results.earthquake_description = "undefined")
         # (/\ results.radius_M_ge_7_5_m.k = "null"
            /\ results.earthquake_description # ""
            /\ results.earthquake_description \in MilestoneTexts)

\* an impact whose magnitude no radius correlation covers has been returned
\* with a description, for an input inside the documented ranges
C24_Witness ==
  /\ results # NoResults
  /\ ValidInput(inputs)
  /\ ~results.airburst
  /\ results.radius_M_ge_7_5_m.k = "null"
  /\ results.earthquake_description \in MilestoneTexts
  /\ Gt(results.Magnitude, Dec(12, 0))

\* C21: when a report request is answered 200 with a report id, the PDF has
\* been uploaded and the metadata record of the id written, in that order:
\* metadata is only ever written for an object that is in the bucket, and a
\* download of an id that was returned never answers "Report not found"
\* (it answers 200).
C21_ReportDownloadable ==
  /\ [](/\ \A id \in issued.answers : id \in redis.reports /\ r2Key(id) \in r2
        /\ \A id \in redis.reports : r2Key(id) \in r2
        /\ \A i \in Handlers :
             (handlers[i].route = "reports" /\ handlers[i].reportId \in issued.answers)
               => (handlers[i].status = 200 /\ handlers[i].error # "Report not found"))
  /\ [][ /\ \A id \in redis'.reports \ redis.reports : r2Key(id) \in r2
         /\ \A id \in issued'.answers \ issued.answers : id \in redis.reports ]_vars

\* a report id that was returned has been downloaded while another report
\* is uploaded but has no metadata yet
C21_Witness ==
  \E i, j \in Handlers :
    /\ handlers[i].route = "reports"
    /\ handlers[i].reportId \in issued.answers
    /\ handlers[i].status = 200
    /\ handlers[j].route = "impact-engine"
    /\ handlers[j].pc = "meta"
    /\ r2Key(handlers[j].reportId) \in r2

\* the daily limit of the account whose key the report requests carry
AliceLimit == dailyLimit(redis, "alice@example.org")

\* no handler is in the middle of a request
Quiescent == \A i \in Handlers : handlers[i].pc \in {"idle", "done"}

\* C25: under every interleaving of concurrent report requests of an account
\* at most dailyReportLimit requests pass the quota check; a request that is
\* answered 429 decrements the counter it incremented; and once no request
\* is in flight the usage counter is at most the limit and counts exactly
\* the requests that passed, so a rejected request made no net change.
C25_QuotaUnderConcurrency ==
  /\ [](/\ issued.passed <= AliceLimit
        /\ Quiescent => (redis.usage <= AliceLimit /\ redis.usage = issued.passed))
  /\ [][ \A i \in Handlers :
           (handlers[i].pc = "quota" /\ handlers'[i].status = 429) =>
             /\ handlers[i].newCount > handlers[i].dailyLimit
             /\ redis'.usage = redis.usage - 1 ]_vars

\* a request has been answered 429 and another one holds a count above the
\* limit, when the limit is used up
C25_Witness ==
  \E i, j \in Handlers :
    /\ handlers[i].route = "impact-engine"
    /\ handlers[i].status = 429
    /\ handlers[j].pc = "quota"
    /\ handlers[j].newCount > AliceLimit
    /\ issued.passed = AliceLimit

\* C26: the usage counter counts only the reports that were produced: once
\* no request is in flight it equals the number of answers 200 that carry a
\* report id, because a request that passed the quota check and then failed
\* (500) gave its unit back.
C26_QuotaCountsReports ==
  Quiescent => redis.usage = Cardinality(issued.answers)

\* C27: a confirmation token is good for one confirmation: of the confirm
\* requests that present the same token, at most one gets past the lookup, and
\* at most one API key is ever returned for the token.
PastLookup(token) ==
  {i \in Handlers : /\ handlers[i].route \in {"register/confirm", "rotate/confirm"}
                    /\ handlers[i].token = token
                    /\ handlers[i].pc \in {"del", "acct", "setAcct", "setKey", "delOld"}}
KeysFor(token) == {k \in issued.keys : k.token = token}
C27_OneTimeToken ==
  \A t \in issued.tokens :
    /\ Cardinality(PastLookup(t.token)) <= 1
    /\ Cardinality(KeysFor(t.token)) <= 1

\* C28: when no confirm request is in flight, every address with an account
\* has exactly one entry in the key index, the one of the hash in its account
\* record, so that a replaced key no longer authenticates.
AccountsQuiescent == \A i \in Handlers : handlers[i].pc \in {"idle", "done"}
IndexOf(email) == {k \in DOMAIN redis.kv : redis.kv[k] = email}
Authenticates(apiKey) ==
  validateApiKey(redisGet(redis, keyKey(sha256Hex(apiKey)))) = NoResponse
C28_KeyIndexConsistent ==
  AccountsQuiescent =>
    /\ \A email \in Emails :
         IF redisGetAcct(redis, email).apiKeyHash = ""
         THEN IndexOf(email) = {}
         ELSE IndexOf(email) = {keyKey(redisGetAcct(redis, email).apiKeyHash)}
    /\ \A apiKey \in issued.apiKeys \cup {"as_alice"} :
         Authenticates(apiKey) =>
           \E email \in Emails :
             redisGetAcct(redis, email).apiKeyHash = sha256Hex(apiKey)

\* C29: in the game trustPoints is within 0..100 in every reachable state,
\* whatever impacts, false alarms and deflections have happened.
C29_TrustWithinBounds == game.trustPoints >= 0 /\ game.trustPoints <= 100

\* C30: game over is absorbing: from a state with trustPoints <= 0 or
\* budget <= 0 every step either keeps the game over and leaves budget,
\* trustPoints, game time and asteroids as they are, or is Restart Mission,
\* after which the budget is 50, trustPoints is 75 and asteroids, selection
\* and event log are empty.
GameFrozen ==
  /\ isGameOver(game')
  /\ game'.budget = game.budget
  /\ game'.trustPoints = game.trustPoints
  /\ game'.currentTime = game.currentTime
  /\ game'.asteroids = game.asteroids
ClaimedRestart ==
  /\ game'.budget = Billions(50)
  /\ game'.trustPoints = 75
  /\ game'.asteroids = <<>>
  /\ game'.selectedAsteroid = 0
  /\ game'.eventLog = 0
C30_GameOverAbsorbing == [][isGameOver(game) => GameFrozen \/ ClaimedRestart]_vars

====
